---- MODULE Spec2Model ----
(***************************************************************************)
(* Model of the MLX90393 magnetometer driver of truenorth                  *)
(* (src/code/truenorth/src/magsensor/mlx90393_inner.rs and                 *)
(* mlx90393_defs.rs): the bus transaction layer, the configuration cache   *)
(* and the measurement decoder; the event dispatcher and the sensor state   *)
(* of the same file; the sampling thread and its stop channel              *)
(* (magsensor/mlx90393.rs); the calibration bounds (main.rs, smartvar.rs). *)
(* The calibration engine, the heading estimator and the start/calibrate   *)
(* entry points are declared in magsensor.rs only and are modelled from    *)
(* the design document.                                                    *)
(*                                                                         *)
(* The I2C device is the environment.  Every transaction of the driver is  *)
(* a write of tx bytes followed by a read of a fixed-size rx buffer; the   *)
(* environment answers each transaction with a response: the write fails   *)
(* ("werr"), the read fails ("rerr"), or the read delivers rx bytes        *)
(* ("ok").  A call receives the responses of its transactions as a         *)
(* sequence rs, consumed in order.                                         *)
(*                                                                         *)
(* f32 values are modelled in thousandths: the conversion table holds      *)
(* round(scale * 1000) and a decoded axis is raw * that integer, i.e. the  *)
(* product in units of 0.001 uT.                                           *)
(***************************************************************************)
EXTENDS Integers, Sequences, FiniteSets, TLC

VARIABLES
    internal,      \* MLX90393Internal: the four cached configuration values
    last,          \* the outstanding driver call: result, transcript, cache before
    handlers,      \* MLX90393Internal.handlers, in registration order
    poisoned,      \* handlers whose Mutex a panic has poisoned
    running,       \* FALSE once a panic has aborted the program
    sent,          \* the last send_event: event, handlers then, invocations made
    sensor_state,  \* MLX90393Internal.state
    last_state,    \* MLX90393Internal.last_state
    called,        \* the last lifecycle entry point called
    caller,        \* "ready", or "sleeping" inside calibrate(timeout)
    channel,       \* the stop channel: messages sent and not yet received
    ends,          \* number of end() calls made
    thread,        \* the sampling thread: "check", "sleep" or "ended"
    handle,        \* the device handle: "alive" or "dropped"
    parameters,    \* TrueNorthParameters: the six calibration bounds
    fed,           \* the samples the sampling loop has processed, oldest first
    emitted,       \* the events the sampling loop has emitted, oldest first
    last_heading,  \* the last emitted heading
    lpf,           \* LowPassFilter.state of the sampling loop: None or the last output
    window,        \* the sliding window of smoothed samples, oldest first
    pushes,        \* number of samples pushed into the window so far
    iterations,    \* the sampling-loop iterations run so far, oldest first
    dispatched,    \* every event sent by the loop with its iteration, oldest first
    device,        \* the device's registers CONF1, CONF2, CONF3
    writes,        \* number of register writes the device has stored
    sv_value,      \* SmartVar.value
    sv_channel,    \* SmartVar.channel: Changed events queued and not yet received
    sv_handlers,   \* SmartVar.handlers, in registration order
    delivered,     \* handler invocations made by the SmartVar worker, oldest first
    held,          \* the locks each thread holds, in the order taken
    pc,            \* the position of the main, BLE server and worker threads
    store,         \* SmartVar: namespace, storage_name, the NVS entry, the last call
    motor,         \* Motor: angle, the channel to the motor thread, the last call and pulse
    endable        \* EndableHandler.objects and the end() calls made

busVars == <<internal, last>>
eventVars == <<handlers, poisoned, running, sent>>
stateVars == <<sensor_state, last_state, called, caller>>
threadVars == <<channel, ends, thread, handle>>
sampleVars == <<parameters, fed, emitted, last_heading>>

loopVars == <<lpf, window, pushes, iterations, dispatched>>
deviceVars == <<device, writes>>
smartVars == <<sv_value, sv_channel, sv_handlers, delivered, held, pc>>

appVars == <<store, motor, endable>>

vars == <<busVars, eventVars, stateVars, threadVars, sampleVars,
          loopVars, deviceVars, smartVars, appVars>>

\* ------------------------------------------------------------------ bounds

\* Calls that change the cache are explored while at most this many of the
\* four configuration values (gain, resolution, filter, oversampling) are
\* cached at once.
MaxCached == 1

\* ------------------------------------------------------- integer arithmetic

RECURSIVE BitAndN(_, _, _)
\* a & b on the low n bits
BitAndN(a, b, n) ==
    IF n = 0 THEN 0
    ELSE ((a % 2) * (b % 2)) + 2 * BitAndN(a \div 2, b \div 2, n - 1)

RECURSIVE BitOrN(_, _, _)
\* a | b on the low n bits
BitOrN(a, b, n) ==
    IF n = 0 THEN 0
    ELSE (IF (a % 2) + (b % 2) > 0 THEN 1 ELSE 0)
         + 2 * BitOrN(a \div 2, b \div 2, n - 1)

\* the two operators on every pair of 4-bit values
And4 == [a \in 0 .. 15 |-> [b \in 0 .. 15 |-> BitAndN(a, b, 4)]]

Or4 == [a \in 0 .. 15 |-> [b \in 0 .. 15 |-> BitOrN(a, b, 4)]]

\* a & b on u8 / u16 values, four bits at a time
BitAnd(a, b) ==
    And4[a % 16][b % 16] + 16 * And4[(a \div 16) % 16][(b \div 16) % 16]
    + 256 * And4[(a \div 256) % 16][(b \div 256) % 16]
    + 4096 * And4[(a \div 4096) % 16][(b \div 4096) % 16]

\* a | b on u8 / u16 values, four bits at a time
BitOr(a, b) ==
    Or4[a % 16][b % 16] + 16 * Or4[(a \div 16) % 16][(b \div 16) % 16]
    + 256 * Or4[(a \div 256) % 16][(b \div 256) % 16]
    + 4096 * Or4[(a \div 4096) % 16][(b \div 4096) % 16]

\* !m on u16
Not16(m) == 65535 - m

\* a << n on u8 (bits shifted out are dropped)
Shl8(a, n) == (a * (2 ^ n)) % 256

\* a << n on u16 / on the bit pattern of an i16 (bits shifted out are dropped)
Shl16(a, n) == (a * (2 ^ n)) % 65536

\* a >> n on an unsigned value
Shr(a, n) == a \div (2 ^ n)

\* the i16 whose bit pattern is p
AsI16(p) == IF p >= 32768 THEN p - 65536 ELSE p

\* ------------------------------------------------------ register map, enums

CONF1 == 0
CONF2 == 1
CONF3 == 2

CMD_SB == 16
CMD_SW == 32
CMD_SM == 48
CMD_RM == 64
CMD_RR == 80
CMD_WR == 96
CMD_EX == 128
CMD_RT == 240

AXIS_X == 2
AXIS_Y == 4
AXIS_Z == 8
AXIS_ALL == 14

MLX90393AXIS == {AXIS_X, AXIS_Y, AXIS_Z, AXIS_ALL}

\* GAIN5X = 0 .. GAIN1X = 7
MLX90393GAIN == 0 .. 7
GAIN1X == 7

\* RES16 = 0 .. RES19 = 3
MLX90393RESOLUTION == 0 .. 3
RES16 == 0

MLX90393FILTER == 0 .. 7

MLX90393OVERSAMPLING == 0 .. 3

\* Option::None of the four cache fields
None == -1

\* GAIN_RES_CONVERSION[resolution][gain] = (xy scale, z scale), in thousandths
GAIN_RES_CONVERSION ==
    << << <<751, 1210>>, <<601, 968>>, <<451, 726>>, <<376, 605>>,
          <<300, 484>>, <<250, 403>>, <<200, 323>>, <<150, 242>> >>,
       << <<1502, 2420>>, <<1202, 1936>>, <<901, 1452>>, <<751, 1210>>,
          <<601, 968>>, <<501, 807>>, <<401, 645>>, <<300, 484>> >>,
       << <<3004, 4840>>, <<2403, 3872>>, <<1803, 2904>>, <<1502, 2420>>,
          <<1202, 1936>>, <<1001, 1613>>, <<801, 1291>>, <<601, 968>> >>,
       << <<6009, 9680>>, <<4840, 7744>>, <<3605, 5808>>, <<3004, 4840>>,
          <<2403, 3872>>, <<2003, 3227>>, <<1602, 2581>>, <<1202, 1936>> >> >>

\* the table read with the gain levels in the opposite order (5x last)
Scale_rev(res, gain, k) == GAIN_RES_CONVERSION[res + 1][8 - gain][k]

\* GAIN_RES_CONVERSION[res as usize][gain as usize].0 / .1 (k = 1 / 2)
Scale(res, gain, k) == GAIN_RES_CONVERSION[res + 1][gain + 1][k]

\* ---------------------------------------------------------------- results

NoErr == [kind |-> "none", fn |-> "", status |-> 0]

\* the `?` on a failed i2c write or read
IoErr(fn) == [kind |-> "io", fn |-> fn, status |-> 0]

\* "MLX90393: <fn> failed, status: <status>"
StatusErr(fn, status) == [kind |-> "status", fn |-> fn, status |-> status]

\* "MLX90393: <fn> failed, axis ALL not allowed here."
AxisErr(fn) == [kind |-> "axis", fn |-> fn, status |-> 0]

\* Result of a call: Ok(val) or Err(err), the transactions it made and the
\* cache it leaves.  val is <<>> for (), <<v>> for a scalar, <<x, y, z>>.
Ok(val, bus, c) == [ok |-> TRUE, val |-> val, err |-> NoErr, bus |-> bus, cache |-> c]

Err(err, bus, c) == [ok |-> FALSE, val |-> <<>>, err |-> err, bus |-> bus, cache |-> c]

\* the responses left after the transactions in bus
Rest(rs, bus) == SubSeq(rs, Len(bus) + 1, Len(rs))

\* ------------------------------------------------------- bus transactions

\* i2c.write(tx); sleep; i2c.read(rx): one transaction answered by resp
Transact(tx, resp) ==
    [tx |-> tx, io |-> resp.io, rx |-> IF resp.io = "ok" THEN resp.rx ELSE <<>>]

\* read_register testing `status == 0x10` in place of `status & 0x10`
read_register_eq(register, c, rs) ==
    LET e == Transact(<<CMD_RR, Shl8(register, 2)>>, rs[1])
        status == e.rx[1]
        ret == BitOr(Shl16(e.rx[2], 8), e.rx[3])
    IN  IF e.io # "ok" THEN Err(IoErr("read_register"), <<e>>, c)
        ELSE IF status = 16 THEN Err(StatusErr("read_register", status), <<e>>, c)
        ELSE Ok(<<ret>>, <<e>>, c)

read_register(register, c, rs) ==
    LET e == Transact(<<CMD_RR, Shl8(register, 2)>>, rs[1])
        status == e.rx[1]
        error == BitAnd(status, 16)
        ret == BitOr(Shl16(e.rx[2], 8), e.rx[3])
    IN  IF e.io # "ok" THEN Err(IoErr("read_register"), <<e>>, c)
        ELSE IF error # 0 THEN Err(StatusErr("read_register", status), <<e>>, c)
        ELSE Ok(<<ret>>, <<e>>, c)

\* write_register sending the low byte of the value before the high byte
write_register_lohi(register, value, c, rs) ==
    LET e == Transact(<<CMD_WR, BitAnd(value, 255), BitAnd(Shr(value, 8), 255),
                        Shl8(register, 2)>>, rs[1])
        status == e.rx[1]
        error == BitAnd(status, 16)
    IN  IF e.io # "ok" THEN Err(IoErr("write_register"), <<e>>, c)
        ELSE IF error # 0 THEN Err(StatusErr("write_register", status), <<e>>, c)
        ELSE Ok(<<>>, <<e>>, c)

write_register(register, value, c, rs) ==
    LET e == Transact(<<CMD_WR, BitAnd(Shr(value, 8), 255), BitAnd(value, 255),
                        Shl8(register, 2)>>, rs[1])
        status == e.rx[1]
        error == BitAnd(status, 16)
    IN  IF e.io # "ok" THEN Err(IoErr("write_register"), <<e>>, c)
        ELSE IF error # 0 THEN Err(StatusErr("write_register", status), <<e>>, c)
        ELSE Ok(<<>>, <<e>>, c)

start_single_measurement(c, rs) ==
    LET e == Transact(<<BitOr(CMD_SM, AXIS_ALL)>>, rs[1])
        status == e.rx[1]
        error == BitAnd(status, 16)
        sm_mode == BitAnd(status, 32)
    IN  IF e.io # "ok" THEN Err(IoErr("start_single_measurement"), <<e>>, c)
        ELSE IF error # 0 THEN Err(StatusErr("start_single_measurement", status), <<e>>, c)
        ELSE IF sm_mode = 0 THEN Err(StatusErr("start_single_measurement", status), <<e>>, c)
        ELSE Ok(<<>>, <<e>>, c)

start_burst_measurement(c, rs) ==
    LET e == Transact(<<BitOr(CMD_SB, AXIS_ALL)>>, rs[1])
        status == e.rx[1]
        error == BitAnd(status, 16)
        bm_mode == BitAnd(status, 128)
    IN  IF e.io # "ok" THEN Err(IoErr("start_burst_measurement"), <<e>>, c)
        ELSE IF error # 0 THEN Err(StatusErr("start_burst_measurement", status), <<e>>, c)
        ELSE IF bm_mode = 0 THEN Err(StatusErr("start_burst_measurement", status), <<e>>, c)
        ELSE Ok(<<>>, <<e>>, c)

\* start_wakeup_measurement testing the single-measurement bit 0x20 (the value
\* of the SW opcode) in place of the wakeup bit 0x40
start_wakeup_measurement_sw(c, rs) ==
    LET e == Transact(<<BitOr(CMD_SW, AXIS_ALL)>>, rs[1])
        status == e.rx[1]
        error == BitAnd(status, 16)
        wu_mode == BitAnd(status, 32)
    IN  IF e.io # "ok" THEN Err(IoErr("start_wakeup_measurement"), <<e>>, c)
        ELSE IF error # 0 THEN Err(StatusErr("start_wakeup_measurement", status), <<e>>, c)
        ELSE IF wu_mode = 0 THEN Err(StatusErr("start_wakeup_measurement", status), <<e>>, c)
        ELSE Ok(<<>>, <<e>>, c)

start_wakeup_measurement(c, rs) ==
    LET e == Transact(<<BitOr(CMD_SW, AXIS_ALL)>>, rs[1])
        status == e.rx[1]
        error == BitAnd(status, 16)
        wu_mode == BitAnd(status, 64)
    IN  IF e.io # "ok" THEN Err(IoErr("start_wakeup_measurement"), <<e>>, c)
        ELSE IF error # 0 THEN Err(StatusErr("start_wakeup_measurement", status), <<e>>, c)
        ELSE IF wu_mode = 0 THEN Err(StatusErr("start_wakeup_measurement", status), <<e>>, c)
        ELSE Ok(<<>>, <<e>>, c)

exit_mode(c, rs) ==
    LET e == Transact(<<CMD_EX>>, rs[1])
        status == e.rx[1]
        error == BitAnd(status, 16)
    IN  IF e.io # "ok" THEN Err(IoErr("exit_mode"), <<e>>, c)
        ELSE IF error # 0 THEN Err(StatusErr("exit_mode", status), <<e>>, c)
        ELSE Ok(<<>>, <<e>>, c)

\* reset that drops the cached configuration
reset_clears(c, rs) ==
    LET e == Transact(<<CMD_RT>>, rs[1])
        none == [current_gain |-> None, current_resolution |-> None,
                 current_filter |-> None, current_oversampling |-> None]
    IN  IF e.io # "ok" THEN Err(IoErr("reset"), <<e>>, c)
        ELSE IF BitAnd(e.rx[1], 16) # 0 THEN Err(StatusErr("reset", e.rx[1]), <<e>>, c)
        ELSE Ok(<<>>, <<e>>, none)

reset(c, rs) ==
    LET e == Transact(<<CMD_RT>>, rs[1])
        status == e.rx[1]
        error == BitAnd(status, 16)
    IN  IF e.io # "ok" THEN Err(IoErr("reset"), <<e>>, c)
        ELSE IF error # 0 THEN Err(StatusErr("reset", status), <<e>>, c)
        ELSE Ok(<<>>, <<e>>, c)

\* ------------------------------------------------------ configuration cache

\* a panicking From<u8> conversion ("Invalid MLX90393...")
PanicErr(fn) == [kind |-> "panic", fn |-> fn, status |-> 0]

\* MLX90393GAIN::from(u8) etc.: the tag itself, or a panic outside the enum
FromU8(enum, v, fn, bus, c) ==
    IF v \in enum THEN Ok(<<v>>, bus, c) ELSE Err(PanicErr(fn), bus, c)

set_gain(new_gain, c, rs) ==
    LET r == read_register(CONF1, c, rs)
        gain1 == BitAnd(r.val[1], Not16(112))
        gain2 == BitOr(gain1, Shl16(new_gain, 4))
        w == write_register(CONF1, gain2, c, Rest(rs, r.bus))
    IN  IF ~r.ok THEN Err(r.err, r.bus, c)
        ELSE IF ~w.ok THEN Err(w.err, r.bus \o w.bus, c)
        ELSE Ok(<<>>, r.bus \o w.bus, [c EXCEPT !.current_gain = new_gain])

\* get_gain testing current_filter.is_some() in place of current_gain.is_some()
get_gain_filter(c, rs) ==
    IF c.current_filter # None THEN Ok(<<c.current_gain>>, <<>>, c)
    ELSE LET r == read_register(CONF1, c, rs)
             gain == BitAnd(r.val[1], 112)
         IN  IF ~r.ok THEN Err(r.err, r.bus, c)
             ELSE FromU8(MLX90393GAIN, Shr(gain, 4) % 256, "MLX90393GAIN", r.bus, c)

\* get_gain masking four bits (0x00F0) in place of three (0x0070)
get_gain_wide(c, rs) ==
    IF c.current_gain # None THEN Ok(<<c.current_gain>>, <<>>, c)
    ELSE LET r == read_register(CONF1, c, rs)
             gain == BitAnd(r.val[1], 240)
         IN  IF ~r.ok THEN Err(r.err, r.bus, c)
             ELSE FromU8(MLX90393GAIN, Shr(gain, 4) % 256, "MLX90393GAIN", r.bus, c)

get_gain(c, rs) ==
    IF c.current_gain # None THEN Ok(<<c.current_gain>>, <<>>, c)
    ELSE LET r == read_register(CONF1, c, rs)
             gain == BitAnd(r.val[1], 112)
         IN  IF ~r.ok THEN Err(r.err, r.bus, c)
             ELSE FromU8(MLX90393GAIN, Shr(gain, 4) % 256, "MLX90393GAIN", r.bus, c)

\* set_resolution placing the Y field at bits 6-7
set_resolution_y6(axis, new_resolution, c, rs) ==
    LET r == read_register(CONF3, c, rs)
        resolution ==
            IF axis = AXIS_X
            THEN BitOr(BitAnd(r.val[1], Not16(96)), Shl16(new_resolution, 5))
            ELSE IF axis = AXIS_Y
            THEN BitOr(BitAnd(r.val[1], Not16(192)), Shl16(new_resolution, 6))
            ELSE BitOr(BitAnd(r.val[1], Not16(1536)), Shl16(new_resolution, 9))
        w == write_register(CONF3, resolution, c, Rest(rs, r.bus))
    IN  IF ~r.ok THEN Err(r.err, r.bus, c)
        ELSE IF axis = AXIS_ALL THEN Err(AxisErr("set_resolution"), r.bus, c)
        ELSE IF ~w.ok THEN Err(w.err, r.bus \o w.bus, c)
        ELSE Ok(<<>>, r.bus \o w.bus, [c EXCEPT !.current_resolution = resolution])

\* set_resolution without the rejection of Axis::ALL (treated as Z)
set_resolution_all(axis, new_resolution, c, rs) ==
    LET r == read_register(CONF3, c, rs)
        resolution ==
            IF axis = AXIS_X
            THEN BitOr(BitAnd(r.val[1], Not16(96)), Shl16(new_resolution, 5))
            ELSE IF axis = AXIS_Y
            THEN BitOr(BitAnd(r.val[1], Not16(384)), Shl16(new_resolution, 7))
            ELSE BitOr(BitAnd(r.val[1], Not16(1536)), Shl16(new_resolution, 9))
        w == write_register(CONF3, resolution, c, Rest(rs, r.bus))
    IN  IF ~r.ok THEN Err(r.err, r.bus, c)
        ELSE IF ~w.ok THEN Err(w.err, r.bus \o w.bus, c)
        ELSE Ok(<<>>, r.bus \o w.bus, [c EXCEPT !.current_resolution = resolution])

set_resolution(axis, new_resolution, c, rs) ==
    LET r == read_register(CONF3, c, rs)
        resolution ==
            IF axis = AXIS_X
            THEN BitOr(BitAnd(r.val[1], Not16(96)), Shl16(new_resolution, 5))
            ELSE IF axis = AXIS_Y
            THEN BitOr(BitAnd(r.val[1], Not16(384)), Shl16(new_resolution, 7))
            ELSE BitOr(BitAnd(r.val[1], Not16(1536)), Shl16(new_resolution, 9))
        w == write_register(CONF3, resolution, c, Rest(rs, r.bus))
    IN  IF ~r.ok THEN Err(r.err, r.bus, c)
        ELSE IF axis = AXIS_ALL THEN Err(AxisErr("set_resolution"), r.bus, c)
        ELSE IF ~w.ok THEN Err(w.err, r.bus \o w.bus, c)
        ELSE Ok(<<>>, r.bus \o w.bus, [c EXCEPT !.current_resolution = resolution])

get_resolution(axis, c, rs) ==
    LET cached == c.current_resolution # None
        r == read_register(CONF3, c, rs)
        bus == IF cached THEN <<>> ELSE r.bus
        resolution == IF cached THEN c.current_resolution ELSE r.val[1]
        field ==
            IF axis = AXIS_X THEN BitAnd(Shr(BitAnd(resolution, 96), 5), 3)
            ELSE IF axis = AXIS_Y THEN BitAnd(Shr(BitAnd(resolution, 384), 7), 3)
            ELSE BitAnd(Shr(BitAnd(resolution, 1536), 9), 3)
    IN  IF ~cached /\ ~r.ok THEN Err(r.err, r.bus, c)
        ELSE IF axis = AXIS_ALL THEN Err(AxisErr("get_resolution"), bus, c)
        ELSE FromU8(MLX90393RESOLUTION, field, "MLX90393RESOLUTION", bus, c)

\* set_filter storing the new filter in the cache before the write
set_filter_early(new_filter, c, rs) ==
    LET r == read_register(CONF3, c, rs)
        filter == BitOr(BitAnd(r.val[1], Not16(28)), Shl16(new_filter, 2))
        w == write_register(CONF3, filter, c, Rest(rs, r.bus))
    IN  IF ~r.ok THEN Err(r.err, r.bus, c)
        ELSE IF ~w.ok THEN Err(w.err, r.bus \o w.bus, [c EXCEPT !.current_filter = new_filter])
        ELSE Ok(<<>>, r.bus \o w.bus, [c EXCEPT !.current_filter = new_filter])

\* set_filter clearing the X resolution bits 5-6 together with the filter
set_filter_wide(new_filter, c, rs) ==
    LET r == read_register(CONF3, c, rs)
        filter == BitOr(BitAnd(r.val[1], Not16(124)), Shl16(new_filter, 2))
        w == write_register(CONF3, filter, c, Rest(rs, r.bus))
    IN  IF ~r.ok THEN Err(r.err, r.bus, c)
        ELSE IF ~w.ok THEN Err(w.err, r.bus \o w.bus, c)
        ELSE Ok(<<>>, r.bus \o w.bus, [c EXCEPT !.current_filter = new_filter])

set_filter(new_filter, c, rs) ==
    LET r == read_register(CONF3, c, rs)
        filter == BitOr(BitAnd(r.val[1], Not16(28)), Shl16(new_filter, 2))
        w == write_register(CONF3, filter, c, Rest(rs, r.bus))
    IN  IF ~r.ok THEN Err(r.err, r.bus, c)
        ELSE IF ~w.ok THEN Err(w.err, r.bus \o w.bus, c)
        ELSE Ok(<<>>, r.bus \o w.bus, [c EXCEPT !.current_filter = new_filter])

get_filter(c, rs) ==
    IF c.current_filter # None THEN Ok(<<c.current_filter>>, <<>>, c)
    ELSE LET r == read_register(CONF3, c, rs)
         IN  IF ~r.ok THEN Err(r.err, r.bus, c)
             ELSE FromU8(MLX90393FILTER, Shr(BitAnd(r.val[1], 28), 2) % 256,
                         "MLX90393FILTER", r.bus, c)

set_oversampling(new_oversampling, c, rs) ==
    LET r == read_register(CONF3, c, rs)
        oversampling == BitOr(BitAnd(r.val[1], Not16(3)), new_oversampling)
        w == write_register(CONF3, oversampling, c, Rest(rs, r.bus))
    IN  IF ~r.ok THEN Err(r.err, r.bus, c)
        ELSE IF ~w.ok THEN Err(w.err, r.bus \o w.bus, c)
        ELSE Ok(<<>>, r.bus \o w.bus,
                [c EXCEPT !.current_oversampling = new_oversampling])

\* get_oversampling storing the value it read in the cache
get_oversampling_memo(c, rs) ==
    IF c.current_oversampling # None THEN Ok(<<c.current_oversampling>>, <<>>, c)
    ELSE LET r == read_register(CONF3, c, rs)
         IN  IF ~r.ok THEN Err(r.err, r.bus, c)
             ELSE FromU8(MLX90393OVERSAMPLING, BitAnd(r.val[1], 3) % 256,
                         "MLX90393OVERSAMPLING", r.bus,
                         [c EXCEPT !.current_oversampling = BitAnd(r.val[1], 3)])

get_oversampling(c, rs) ==
    IF c.current_oversampling # None THEN Ok(<<c.current_oversampling>>, <<>>, c)
    ELSE LET r == read_register(CONF3, c, rs)
         IN  IF ~r.ok THEN Err(r.err, r.bus, c)
             ELSE FromU8(MLX90393OVERSAMPLING, BitAnd(r.val[1], 3) % 256,
                         "MLX90393OVERSAMPLING", r.bus, c)

set_trigger_interval(state, c, rs) ==
    LET r == read_register(CONF2, c, rs)
        trigger1 == BitAnd(r.val[1], Not16(32768))
        trigger2 == IF state THEN BitOr(trigger1, 32768) ELSE trigger1
        w == write_register(CONF2, trigger2, c, Rest(rs, r.bus))
    IN  IF ~r.ok THEN Err(r.err, r.bus, c)
        ELSE IF ~w.ok THEN Err(w.err, r.bus \o w.bus, c)
        ELSE Ok(<<>>, r.bus \o w.bus, c)

set_wakeup_comparator(comparator, c, rs) ==
    LET r == read_register(CONF2, c, rs)
        comparator_register ==
            IF comparator THEN BitOr(r.val[1], 16)
            ELSE BitAnd(r.val[1], Not16(16))
        w == write_register(CONF2, comparator_register, c, Rest(rs, r.bus))
    IN  IF ~r.ok THEN Err(r.err, r.bus, c)
        ELSE IF ~w.ok THEN Err(w.err, r.bus \o w.bus, c)
        ELSE Ok(<<>>, r.bus \o w.bus, c)

\* ------------------------------------------------------ measurement decoder

\* the two bytes read as an unsigned 16-bit value
RawAxis_u16(hi, lo) == BitOr(Shl16(hi, 8), lo)

\* (hi as i16) << 8 | lo as i16
RawAxis(hi, lo) == AsI16(BitOr(Shl16(hi, 8), lo))

\* read_measurement scaling Y with the X resolution
read_measurement_xy(c, rs) ==
    LET e == Transact(<<BitOr(CMD_RM, AXIS_ALL)>>, rs[1])
        status == e.rx[1]
        error == BitAnd(status, 16)
        val == << RawAxis(e.rx[4], e.rx[5]),
                  RawAxis(e.rx[6], e.rx[7]),
                  RawAxis(e.rx[8], e.rx[9]) >>
        g == get_gain(c, Rest(rs, <<e>>))
        busg == <<e>> \o g.bus
        x == get_resolution(AXIS_X, c, Rest(rs, busg))
        busx == busg \o x.bus
        y == get_resolution(AXIS_Y, c, Rest(rs, busx))
        busy == busx \o y.bus
        z == get_resolution(AXIS_Z, c, Rest(rs, busy))
        busz == busy \o z.bus
        ret == << val[1] * Scale(x.val[1], g.val[1], 1),
                  val[2] * Scale(x.val[1], g.val[1], 1),
                  val[3] * Scale(z.val[1], g.val[1], 2) >>
    IN  IF e.io # "ok" THEN Err(IoErr("read_measurement"), <<e>>, c)
        ELSE IF ~g.ok THEN Err(g.err, busg, c)
        ELSE IF ~x.ok THEN Err(x.err, busx, c)
        ELSE IF ~y.ok THEN Err(y.err, busy, c)
        ELSE IF ~z.ok THEN Err(z.err, busz, c)
        ELSE IF error # 0 THEN Err(StatusErr("read_measurement", status), busz, c)
        ELSE Ok(ret, busz, c)

read_measurement(c, rs) ==
    LET e == Transact(<<BitOr(CMD_RM, AXIS_ALL)>>, rs[1])
        status == e.rx[1]
        error == BitAnd(status, 16)
        val == << RawAxis(e.rx[4], e.rx[5]),
                  RawAxis(e.rx[6], e.rx[7]),
                  RawAxis(e.rx[8], e.rx[9]) >>
        g == get_gain(c, Rest(rs, <<e>>))
        busg == <<e>> \o g.bus
        x == get_resolution(AXIS_X, c, Rest(rs, busg))
        busx == busg \o x.bus
        y == get_resolution(AXIS_Y, c, Rest(rs, busx))
        busy == busx \o y.bus
        z == get_resolution(AXIS_Z, c, Rest(rs, busy))
        busz == busy \o z.bus
        ret == << val[1] * Scale(x.val[1], g.val[1], 1),
                  val[2] * Scale(y.val[1], g.val[1], 1),
                  val[3] * Scale(z.val[1], g.val[1], 2) >>
    IN  IF e.io # "ok" THEN Err(IoErr("read_measurement"), <<e>>, c)
        ELSE IF ~g.ok THEN Err(g.err, busg, c)
        ELSE IF ~x.ok THEN Err(x.err, busx, c)
        ELSE IF ~y.ok THEN Err(y.err, busy, c)
        ELSE IF ~z.ok THEN Err(z.err, busz, c)
        ELSE IF error # 0 THEN Err(StatusErr("read_measurement", status), busz, c)
        ELSE Ok(ret, busz, c)

\* ------------------------------------------- environment: device responses

WErr == [io |-> "werr", rx |-> <<>>]

RErr == [io |-> "rerr", rx |-> <<>>]

OkResp(bytes) == [io |-> "ok", rx |-> bytes]

\* the 3-byte response to a register read: status, value high, value low
RegResp(status, v) == OkResp(<<status, v \div 256, v % 256>>)

\* Register contents the device answers with: all zeros, all ones, and 0xA72D
\* (gain 2, filter 3, oversampling 1, resolution X 1, Y 2, Z 3, bits 13 and 15).
Mixed == 167 * 256 + 45

RegValues == {0, 65535, Mixed}

\* Status bytes of a one-byte command response: every combination of the
\* error bit and the three acknowledgement bits, with the low bits clear or set.
StatusBytes == {hi * 16 + lo : hi \in 0 .. 15, lo \in {0, 15}}

\* Status bytes of register transactions: no error (other bits clear or set)
\* and error (other bits clear or set).
RegStatuses == {0, 239, 16, 255}

CmdResps == {WErr, RErr} \cup {OkResp(<<s>>) : s \in StatusBytes}

RegReadResps == {WErr, RErr} \cup {RegResp(s, v) : s \in RegStatuses, v \in RegValues}

WriteResps == {WErr, RErr} \cup {OkResp(<<s>>) : s \in RegStatuses}

\* Responses to the read and the write of a read-modify-write: the read fails;
\* both succeed on each register content; the read succeeds and the write
\* answers in each way.
SetterScripts ==
    {<<r, WErr>> : r \in {WErr, RErr, RegResp(16, Mixed)}}
    \cup {<<RegResp(0, v), OkResp(<<0>>)>> : v \in RegValues}
    \cup {<<RegResp(239, Mixed), w>> : w \in {WErr, RErr, OkResp(<<16>>), OkResp(<<239>>)}}

\* Status, two temperature bytes and the three big-endian axis values.
MeasBodies ==
    { <<0, 0, 3, 232, 254, 12, 0, 100>>,
      <<22, 33, 128, 0, 127, 255, 255, 255>>,
      <<255, 255, 0, 255, 255, 0, 0, 128>>,
      <<1, 2, 0, 1, 254, 12, 254, 255>> }

MeasResps ==
    {WErr, RErr} \cup {OkResp(<<s>> \o b) : s \in {0, 239, 16}, b \in MeasBodies}

\* Responses to the register reads read_measurement makes for the values that
\* are not cached (gain, then resolution for X, Y, Z).
NestedScripts ==
    { <<RegResp(0, Mixed), RegResp(0, Mixed), RegResp(0, Mixed), RegResp(0, Mixed)>>,
      <<RegResp(0, 65535), RegResp(0, 0), RegResp(0, 65535), RegResp(0, Mixed)>>,
      <<RegResp(16, Mixed), RegResp(0, Mixed), RegResp(0, Mixed), RegResp(0, Mixed)>>,
      <<RegResp(0, Mixed), RErr, RegResp(0, Mixed), RegResp(0, Mixed)>>,
      <<RegResp(0, Mixed), RegResp(0, Mixed), RegResp(255, 0), RegResp(0, Mixed)>>,
      <<RegResp(0, Mixed), RegResp(0, Mixed), RegResp(0, Mixed), WErr>> }

\* ------------------------------------------------- the device's registers

\* Register writes the device stores per run of the configuration calls.
MaxWrites == 3

\* no register write stored yet
NoWrite == [n |-> 0, register |-> None, value |-> None]

\* a run of the device: what it does to each transaction of a call
Faults == {"none", "werr", "rerr", "status"}

\* the registers a device can hold before the driver first writes them
DeviceContents ==
    { [reg \in {CONF1, CONF2, CONF3} |-> v] : v \in {0, 65535} }

\* register reg of the device; a register outside the three reads as zero
device_register(dev, reg) == IF reg \in DOMAIN dev THEN dev[reg] ELSE 0

\* The bytes the device sends in answer to the bytes tx with status byte
\* status: to a register read (0x50, reg << 2) the status and the register's
\* two bytes, high first; to any other command the status alone.
device_answer(dev, tx, status) ==
    IF tx[1] = CMD_RR
    THEN LET v == device_register(dev, Shr(tx[2], 2))
         IN  <<status, v \div 256, v % 256>>
    ELSE <<status>>

\* the response to the transaction tx under fault f
device_respond(dev, tx, f) ==
    IF f = "werr" THEN WErr
    ELSE IF f = "rerr" THEN RErr
    ELSE OkResp(device_answer(dev, tx, IF f = "status" THEN 16 ELSE 0))

\* TRUE iff the device stores the register write tx it answered with resp:
\* a write command (0x60, hi, lo, reg << 2) answered without the error bit
device_stores(dev, tx, resp) ==
    /\ tx[1] = CMD_WR
    /\ resp.io = "ok"
    /\ BitAnd(resp.rx[1], 16) = 0
    /\ Shr(tx[4], 2) \in DOMAIN dev

\* the registers after the transaction tx answered with resp
device_store(dev, tx, resp) ==
    IF device_stores(dev, tx, resp)
    THEN [dev EXCEPT ![Shr(tx[4], 2)] = tx[2] * 256 + tx[3]]
    ELSE dev

\* the count of stored writes and the last of them after the transaction tx
\* answered with resp
device_log(dev, log, tx, resp) ==
    IF device_stores(dev, tx, resp)
    THEN [n |-> log.n + 1, register |-> Shr(tx[4], 2),
          value |-> tx[2] * 256 + tx[3]]
    ELSE log

\* The call F (a function of the responses it receives) run against the
\* device dev, whose transactions meet the faults fs in order: each
\* transaction is answered from the registers as they are when it is made.
\* Every call of the configuration layer makes at most two transactions.
WithDevice(F(_), dev, log, fs) ==
    LET r0 == F(<<WErr, WErr>>)
    IN  IF r0.bus = <<>> THEN [r |-> r0, device |-> dev, writes |-> log]
        ELSE LET t1 == r0.bus[1].tx
                 a1 == device_respond(dev, t1, fs[1])
                 d1 == device_store(dev, t1, a1)
                 l1 == device_log(dev, log, t1, a1)
                 r1 == F(<<a1, WErr>>)
             IN  IF Len(r1.bus) < 2 THEN [r |-> r1, device |-> d1, writes |-> l1]
                 ELSE LET t2 == r1.bus[2].tx
                          a2 == device_respond(d1, t2, fs[2])
                      IN  [r |-> F(<<a1, a2>>),
                           device |-> device_store(d1, t2, a2),
                           writes |-> device_log(d1, l1, t2, a2)]

\* the device before the driver has written anything: its registers clear
DeviceInit ==
    /\ device = [reg \in {CONF1, CONF2, CONF3} |-> 0]
    /\ writes = NoWrite

\* ----------------------------------------------------------------- f32 values

\* |n|
Abs(n) == IF n < 0 THEN -n ELSE n

RECURSIVE GCD(_, _)
\* the greatest common divisor of two naturals
GCD(a, b) == IF b = 0 THEN a ELSE GCD(b, a % b)

\* The f32 values of the sampling path (samples, filter outputs, averages,
\* bounds) are kept as exact fractions num / den in lowest terms, den > 0:
\* sums, products and quotients are computed without loss.  The rounding of
\* an f32 result to 24 significant bits is not modelled.
F32Norm(n, d) ==
    LET g == GCD(Abs(n), d)
    IN  [num |-> n \div g, den |-> d \div g]

\* the f32 of a whole number
F32(n) == [num |-> n, den |-> 1]

\* a + b
F32Add(a, b) == F32Norm(a.num * b.den + b.num * a.den, a.den * b.den)

\* (k / m) * a, for whole k and m > 0
F32Scale(k, m, a) ==
    LET g == GCD(k, m)
        h == GCD(Abs(a.num), m \div g)
    IN  F32Norm((k \div g) * (a.num \div h), ((m \div g) \div h) * a.den)

\* a < b: the whole parts are compared first, the fractions after them
F32Less(a, b) ==
    LET fa == a.num \div a.den
        fb == b.num \div b.den
    IN  IF fa # fb THEN fa < fb
        ELSE (a.num - fa * a.den) * b.den < (b.num - fb * b.den) * a.den

\* Vector3 { x, y, z } of whole numbers
V3(x, y, z) == <<F32(x), F32(y), F32(z)>>

\* f32::MAX and f32::MIN, the greatest and the least finite f32: the model
\* takes the greatest and the least whole number of its range for them.
\* They are stored and compared, never operands of a sum.
F32_MAX == 2147483647

F32_MIN == -F32_MAX

\* --------------------------------------------------------- event dispatcher

\* Subscribers are told apart by an identity; at most this many are added.
MaxHandlers == 3

HandlerIds == 1 .. MaxHandlers

\* MagSensorEvent
RawChanged(v) == <<"RawChanged", v>>

CalibratedChanged(x, y, z) == <<"CalibratedChanged", x, y, z>>

HeadingChanged(h) == <<"HeadingChanged", h>>

\* the elements of a sequence
Range(q) == {q[i] : i \in 1 .. Len(q)}

\* a sequence in reverse order
Reverse(q) == [i \in 1 .. Len(q) |-> q[Len(q) + 1 - i]]

\* add_handler with insertion at the front
add_handler_front(handler, hs) == <<handler>> \o hs

\* MLX90393Inner::add_handler: self.internal.handlers.push(..)
add_handler(handler, hs) == Append(hs, handler)

RECURSIVE send_event_from(_, _, _, _, _)
\* The for loop of send_event from position i of hs on.  poison is the set of
\* handlers whose Mutex is poisoned, faulty the handlers that panic on this
\* event.  handler.lock().unwrap() panics on a poisoned Mutex before the
\* handler is invoked; a handler that panics is invoked, poisons its Mutex
\* and ends the loop: there is no catch_unwind, the panic leaves send_event.
send_event_from(i, event, hs, poison, faulty) ==
    IF i > Len(hs)
    THEN [ok |-> TRUE, calls |-> <<>>, poisoned |-> poison]
    ELSE IF hs[i] \in poison
    THEN [ok |-> FALSE, calls |-> <<>>, poisoned |-> poison]
    ELSE IF hs[i] \in faulty
    THEN [ok |-> FALSE, calls |-> << <<hs[i], event>> >>,
          poisoned |-> poison \cup {hs[i]}]
    ELSE LET r == send_event_from(i + 1, event, hs, poison, faulty)
         IN  [r EXCEPT !.calls = << <<hs[i], event>> >> \o @]

\* send_event iterating from the newest subscriber to the oldest
send_event_rev(event, hs, poison, faulty) ==
    send_event_from(1, event, Reverse(hs), poison, faulty)

\* MLX90393Inner::send_event: ok is TRUE when the call returns Ok(()), FALSE
\* when a panic leaves it; calls are the invocations made, in order.
send_event(event, hs, poison, faulty) ==
    send_event_from(1, event, hs, poison, faulty)

\* the events dispatched in the model, one of each kind
Events ==
    { RawChanged(V3(1, 2, 3)),
      CalibratedChanged(<<F32(5), F32(-2)>>, <<F32(4), F32(1)>>,
                        <<F32(6), F32(0)>>),
      HeadingChanged(10) }

\* no event sent yet
NoSend == [event |-> <<>>, pre |-> <<>>, calls |-> <<>>, ok |-> TRUE]

\* after MLX90393Internal::default(): no subscriber
EventInit ==
    /\ handlers = <<>>
    /\ poisoned = {}
    /\ running = TRUE
    /\ sent = NoSend

\* -------------------------------------------------------------- sensor state

\* MagSensorState
MagSensorState == {"Idle", "Calibrating", "Measuring"}

\* set_state that forgets the previous state
set_state_nohistory(new_state, cur) == [state |-> new_state, last_state |-> "Idle"]

\* MLX90393Inner::set_state: last_state = state; state = new_state
set_state(new_state, cur) == [state |-> new_state, last_state |-> cur]

\* after MLX90393Internal::default(): Idle, and no entry point called yet
StateInit ==
    /\ sensor_state = "Idle"
    /\ last_state = "Idle"
    /\ called = "new"
    /\ caller = "ready"

\* ---------------------------------------------- sampling thread, stop channel

\* end() is called at most this many times.
MaxEnds == 2

\* Receiver::try_recv on the queue ch: the oldest message, if there is one
\* (also when every Sender is gone); Err(Empty) or Err(Disconnected) otherwise
try_recv(ch) ==
    IF ch = <<>> THEN [ok |-> FALSE, val |-> FALSE, channel |-> ch]
    ELSE [ok |-> TRUE, val |-> Head(ch), channel |-> Tail(ch)]

\* end() sending false
end_false(ch) == Append(ch, FALSE)

\* impl Endable for MLX90393, end(): tx_end.send(true)
end(ch) == Append(ch, TRUE)

\* The top of a sensor_thread iteration:
\*   if let Ok(end) = rx_end.lock().unwrap().try_recv() { if end { break; } }
\* the stop check leaving the loop on any received value
sensor_thread_check_any(ch) ==
    LET r == try_recv(ch)
    IN  [thread |-> IF r.ok THEN "ended" ELSE "sleep",
         channel |-> r.channel]

sensor_thread_check(ch) ==
    LET r == try_recv(ch)
    IN  [thread |-> IF r.ok /\ r.val THEN "ended" ELSE "sleep",
         channel |-> r.channel]

\* after MLX90393::new(): the channel is empty, init() has spawned the thread
ThreadInit ==
    /\ channel = <<>>
    /\ ends = 0
    /\ thread = "check"
    /\ handle = "alive"

\* ------------------------------------------- SmartVar: worker and handlers

\* Handlers the BLE server registers on the SmartVar.
MaxSmartHandlers == 2

\* values found in the NVS partition for the SmartVar
StoredValues == {7, 9, 11}

\* SmartVarEvent::Changed(value)
Changed(value) == [kind |-> "Changed", value |-> value]

\* load() of an f32: a stored value <<v>> replaces the value, nothing stored
\* (<<>>) leaves it; then channel.0.send(Changed(value.clone()))
load(value, ch, stored) ==
    LET v == IF stored = <<>> THEN value ELSE stored[1]
    IN  [value |-> v, channel |-> Append(ch, Changed(v))]

\* add_handler putting the new handler before the others
smartvar_add_handler_front(hs, h) == <<h>> \o hs

\* SmartVar::add_handler: handlers.push(..)
smartvar_add_handler(hs, h) == Append(hs, h)

\* the locks of handler h: its closure and its parameters
HandlerLock(h) == <<"handler", h>>

ParametersLock(h) == <<"parameters", h>>

\* the SmartVar's own Mutex and the Mutex of the NVS namespace
VarLock == <<"var", 0>>

NvsLock == <<"nvs", 0>>

\* the worker taking only the lock of the handler's closure
worker_locks_one(h) == <<HandlerLock(h)>>

\* the locks the worker takes to invoke handler h, in order:
\*   handler.handler.lock().unwrap()(&value, handler.parameters.lock().unwrap())
worker_locks(h) == <<HandlerLock(h), ParametersLock(h)>>

\* the threads that take locks
Threads == {"main", "ble", "worker"}

\* TRUE iff no thread holds lock l
Free(l, hl) == \A t \in Threads : l \notin Range(hl[t])

\* after SmartVar::new(value): no storage, no handler, nothing queued, the
\* worker spawned
SmartInit ==
    /\ sv_value = F32_MIN
    /\ sv_channel = <<>>
    /\ sv_handlers = <<>>
    /\ delivered = <<>>
    /\ held = [t \in Threads |-> <<>>]
    /\ pc = [main |-> "bt_started", ble |-> "advertising", worker |-> "sleep",
             i |-> 0, event |-> 0, received |-> 0]

\* ------------------------------------------------ SmartVar: set, get, save

\* set() and setup_storage() calls explored per run.
MaxSets == 2

\* values passed to set()
SetValues == {5, 9}

\* What save() meets: the value is written; the write of the value fails
\* (save returns Err); the partition or the namespace cannot be opened
\* (get_partition_namespace panics in take().unwrap() or in panic!).
SaveOutcomes == {"ok", "err", "panic"}

\* save(): get_partition_namespace, then nvs.lock().unwrap().set_raw(..)
save(sv, outcome) ==
    IF ~sv.namespace THEN [nvs |-> sv.nvs, result |-> "err"]
    ELSE IF outcome = "panic" THEN [nvs |-> sv.nvs, result |-> "panic"]
    ELSE IF outcome = "err" THEN [nvs |-> sv.nvs, result |-> "err"]
    ELSE [nvs |-> <<sv.value>>, result |-> "ok"]

\* SmartVar::set: the value is assigned; save() is called when storage_name
\* and namespace are both set, its Err only logged; Changed(value) is sent.
\* A panic inside save() leaves set() by unwinding.
set(sv, value, outcome) ==
    LET v == [sv EXCEPT !.value = value]
        saving == v.storage_name /\ v.namespace
        s == IF saving THEN save(v, outcome) ELSE [nvs |-> v.nvs, result |-> "skipped"]
    IN  IF s.result = "panic"
        THEN [sv |-> v, result |-> "panic", saved |-> s.result]
        ELSE [sv |-> [v EXCEPT !.nvs = s.nvs, !.channel = Append(@, Changed(value))],
              result |-> "ok", saved |-> s.result]

\* SmartVar::get
get(sv) == sv.value

\* SmartVar::setup_storage: both names are set, then load(), its Err only
\* logged; a panic inside load() leaves setup_storage by unwinding
setup_storage(sv, outcome) ==
    LET r == load(sv.value, sv.channel, sv.nvs)
        named == [sv EXCEPT !.namespace = TRUE, !.storage_name = TRUE]
    IN  IF outcome = "panic"
        THEN [sv |-> named, result |-> "panic"]
        ELSE [sv |-> [named EXCEPT !.value = r.value, !.channel = r.channel],
              result |-> "ok"]

\* Public end() calls on the SmartVar explored per run.
MaxVarEnds == 1

\* no set() or get() call made yet
NoSmartCall == [op |-> "none", arg |-> 0, result |-> "none", saved |-> "none", val |-> 0]

\* after SmartVar::new(value): namespace and storage_name are None; the NVS
\* holds no entry for the value; the Mutex around the SmartVar is sound;
\* nothing was sent on the end channel
NewStore ==
    [namespace |-> FALSE, storage_name |-> FALSE, nvs |-> <<>>,
     poisoned |-> FALSE, calls |-> 0, call |-> NoSmartCall,
     queued |-> <<>>, end_channel |-> <<>>, ends |-> 0]

StoreInit == store = NewStore

\* --------------------------------------------------------- calibration bounds

\* the six bounds of TrueNorthParameters
BoundNames == {"max_x", "max_y", "max_z", "min_x", "min_y", "min_z"}

\* SmartVar::new(value) behind its Arc<Mutex<..>>: no storage, no handler,
\* nothing queued.  nvs is the entry the partition holds under the name of
\* the SmartVar, poisoned the state of the Mutex around it, received the
\* number of events its worker has taken, delivered the values its handlers
\* were invoked with.
SmartVar_new(value) ==
    [value |-> value, channel |-> <<>>, namespace |-> FALSE,
     storage_name |-> FALSE, nvs |-> <<>>, poisoned |-> FALSE,
     handlers |-> 0, received |-> 0, delivered |-> <<>>]

\* main(): TrueNorthParameters { max_*: SmartVar::new(f32::MIN),
\*                               min_*: SmartVar::new(f32::MAX) }
InitialParameters ==
    [name \in BoundNames |->
        SmartVar_new(IF name \in {"max_x", "max_y", "max_z"}
                     THEN F32(F32_MIN) ELSE F32(F32_MAX))]

\* main() once the BLE server has registered its handler on every bound and
\* setup_storage has run on it with nothing stored: load() has queued
\* Changed(value)
StoredParameters ==
    [name \in BoundNames |->
        setup_storage([InitialParameters[name] EXCEPT !.handlers = 1], "ok").sv]

\* Worker iterations explored per run, over the six bounds.
MaxDeliveries == 3

\* the number of events the workers of the bounds have taken
Received(p) ==
    p.max_x.received + p.max_y.received + p.max_z.received
        + p.min_x.received + p.min_y.received + p.min_z.received

\* the six values of the bounds
Bounds(p) == [name \in BoundNames |-> p[name].value]

\* What the set() calls of one run of the calibration engine meet in save(),
\* bound by bound.
NoFault == [name \in BoundNames |-> "ok"]

\* every write succeeds; the write of max_z fails with an Err; the namespace
\* cannot be opened when one of the bounds is saved
SetFaults ==
    {NoFault, [NoFault EXCEPT !["max_z"] = "err"]}
        \cup {[NoFault EXCEPT ![name] = "panic"] : name \in BoundNames}

\* parameters.<name>.lock().unwrap().set(value): SmartVar::set on the bound
\* called name; a panic inside set() unwinds through the guard and poisons
\* the Mutex of the bound
smartvar_set(p, name, value, outcome) ==
    LET r == set(p[name], value, outcome)
    IN  [p EXCEPT ![name] = [r.sv EXCEPT !.poisoned = (r.result = "panic")]]

\* parameters.<name>.lock().unwrap().get(): SmartVar::get on the bound
\* called name
smartvar_get(p, name) == get(p[name])

\* One iteration of the worker of a bound that finds an event queued: the
\* stop check finds nothing (no end() is called on a bound: main adds only
\* the motor to the end handler), try_recv() takes the oldest event and
\* every handler is invoked with its value.
smartvar_worker(sv) ==
    [sv EXCEPT !.channel = Tail(@),
               !.received = @ + 1,
               !.delivered = @ \o [i \in 1 .. sv.handlers |-> Head(sv.channel).value]]

\* --------------------------------------------------------- calibration engine

\* One bound of an axis with the comparison reversed: the stored value is
\* replaced when the sample is within it
widen_bound_reversed(s, name, v, dir, faults) ==
    IF ~s.ok THEN s
    ELSE IF s.p[name].poisoned THEN [s EXCEPT !.ok = FALSE]
    ELSE LET stored == smartvar_get(s.p, name)
             beyond == IF dir = "max" THEN F32Less(v, stored) ELSE F32Less(stored, v)
         IN  IF ~beyond THEN s
             ELSE LET q == smartvar_set(s.p, name, v, faults[name])
                  IN  [p |-> q, ok |-> ~q[name].poisoned]

\* One bound of an axis: the lock is taken (a poisoned Mutex panics in
\* unwrap()), the stored value read and, when the sample is beyond it in the
\* direction dir, replaced.  ok is FALSE once a panic has ended the engine.
widen_bound(s, name, v, dir, faults) ==
    IF ~s.ok THEN s
    ELSE IF s.p[name].poisoned THEN [s EXCEPT !.ok = FALSE]
    ELSE LET stored == smartvar_get(s.p, name)
             beyond == IF dir = "max" THEN F32Less(stored, v) ELSE F32Less(v, stored)
         IN  IF ~beyond THEN s
             ELSE LET q == smartvar_set(s.p, name, v, faults[name])
                  IN  [p |-> q, ok |-> ~q[name].poisoned]

\* One axis of the calibration engine: if the sample exceeds the stored max,
\* update max; if it is below the stored min, update min.
widen(s, max_name, min_name, v, faults) ==
    widen_bound(widen_bound(s, max_name, v, "max", faults),
                min_name, v, "min", faults)

\* the six-scalar snapshot of the bounds
Snapshot(p) ==
    CalibratedChanged(<<smartvar_get(p, "max_x"), smartvar_get(p, "min_x")>>,
                      <<smartvar_get(p, "max_y"), smartvar_get(p, "min_y")>>,
                      <<smartvar_get(p, "max_z"), smartvar_get(p, "min_z")>>)

\* The calibration engine on the windowed average avg = <<x, y, z>>: each
\* axis independently, then one CalibratedChanged with the snapshot if any
\* bound changed.  A panic in a set() ends the engine and its thread where
\* it stands: the bounds set so far stay set, nothing is emitted.
calibration_engine(avg, p, faults) ==
    LET s == widen(widen(widen([p |-> p, ok |-> TRUE],
                               "max_x", "min_x", avg[1], faults),
                         "max_y", "min_y", avg[2], faults),
                   "max_z", "min_z", avg[3], faults)
    IN  [parameters |-> s.p, ok |-> s.ok,
         events |-> IF s.ok /\ Bounds(s.p) # Bounds(p)
                    THEN <<Snapshot(s.p)>> ELSE <<>>]

\* ----------------------------------------------------------- heading estimator

\* hysteresis threshold, in degrees
HysteresisThreshold == 2

\* the difference of two headings without the wraparound
heading_distance_abs(a, b) == Abs(a - b)

\* The angular difference of two headings, taking the shorter arc:
\* diff = |a - b|, or 360 - |a - b| when that exceeds 180.
heading_distance(a, b) ==
    LET diff == Abs(a - b)
    IN  IF diff > 180 THEN 360 - diff ELSE diff

\* the hysteresis step emitting from the threshold on
heading_estimator_ge(heading, lastH) ==
    LET diff == heading_distance(heading, lastH)
    IN  IF diff >= HysteresisThreshold
        THEN [last_heading |-> heading, diff |-> diff,
              events |-> <<HeadingChanged(heading)>>]
        ELSE [last_heading |-> lastH, diff |-> diff, events |-> <<>>]

\* The hysteresis step of the heading estimator on the new rounded heading:
\* emit HeadingChanged, and only then update the last emitted heading, when
\* the distance to the last emitted heading exceeds the threshold.
heading_estimator(heading, lastH) ==
    LET diff == heading_distance(heading, lastH)
    IN  IF diff > HysteresisThreshold
        THEN [last_heading |-> heading, diff |-> diff,
              events |-> <<HeadingChanged(heading)>>]
        ELSE [last_heading |-> lastH, diff |-> diff, events |-> <<>>]

\* ------------------------------------------------------------- sampling loop

\* Windowed averages fed while calibrating: at most this many per run.
MaxCalibrationSamples == 3

\* Headings fed while measuring: at most this many per run.
MaxHeadingSamples == 5

\* windowed averages <<x, y, z>> the sampling loop computes
Samples ==
    { V3(1, 2, 3), V3(5, 1, 0), V3(-2, 4, 6),
      V3(0, 2, 3), V3(1, 7, 3), V3(1, 2, -1) }

\* rounded headings the estimator computes from atan2, in degrees
Headings == {1, 3, 9, 10, 11, 50, 190, 359}

\* every integer heading in [0, 360)
AllHeadings == 0 .. 359

\* the windowed average of the iterations whose heading is fed
MeasuredAvg == V3(1, 2, 3)

\* after construction: initial bounds, nothing sampled, last heading 0
SampleInit ==
    /\ parameters = InitialParameters
    /\ fed = <<>>
    /\ emitted = <<>>
    /\ last_heading = 0

\* ------------------------------------------------ smoothing and the window

\* Iterations of the sampling loop explored per run.
MaxIterations == 2

\* Samples pushed into the window per run, past its capacity.
MaxPushes == 150

\* no sample: the low-pass filter before its first input
NoSample == <<>>

\* LowPassFilter::new(alpha): the loop's smoothing factor, in hundredths
Alpha == 50

\* LowPassFilter::update(input): the first input passes through, a later one
\* is blended with the previous output; the output is the new state
LowPassFilter_update(state, input) ==
    IF state = NoSample THEN input
    ELSE [k \in 1 .. 3 |->
             F32Add(F32Scale(Alpha, 100, input[k]),
                    F32Scale(100 - Alpha, 100, state[k]))]

\* the capacity of the sliding window
WindowCapacity == 100

\* a push that drops the new sample's predecessor once the window is full
window_push_newest(w, s) ==
    IF Len(w) >= WindowCapacity
    THEN Append(SubSeq(w, 1, Len(w) - 1), s)
    ELSE Append(w, s)

\* push into the bounded sliding window: the oldest sample is evicted beyond
\* capacity
window_push(w, s) ==
    IF Len(w) >= WindowCapacity
    THEN Append(Tail(w), s)
    ELSE Append(w, s)

\* the cap on N while Calibrating
CalibratingSamples == 2

RECURSIVE SumLast(_, _, _)
\* the sum of axis k over the n most recent samples of w
SumLast(w, n, k) ==
    IF n = 0 THEN F32(0)
    ELSE F32Add(w[Len(w) - n + 1][k], SumLast(w, n - 1, k))

\* the average over the most recent N samples, N capped at a smaller count
\* while Calibrating and at the full window otherwise
windowed_average(w, sensor) ==
    LET cap == IF sensor = "Calibrating" THEN CalibratingSamples ELSE WindowCapacity
        n == IF Len(w) < cap THEN Len(w) ELSE cap
    IN  [k \in 1 .. 3 |-> F32Scale(1, n, SumLast(w, n, k))]

\* ------------------------------------------------- one sampling iteration

\* the Vector3 read_measurement returns, its axes as f32
Vector3(val) == [k \in 1 .. 3 |-> F32(val[k])]

\* steps 4 to 6 recording a zero sample when the read failed
loop_sample_onerror(r, elapsed, f, w) ==
    LET raw == IF r.ok THEN Vector3(r.val) ELSE V3(0, 0, 0)
        smoothed == LowPassFilter_update(f, raw)
    IN  [sampled |-> TRUE, lpf |-> smoothed,
         window |-> IF elapsed THEN window_push(w, smoothed) ELSE w,
         pushed |-> elapsed]

\* Steps 4 to 6 on the result r of read_measurement: on an error nothing is
\* recorded; otherwise the sample is smoothed and, when the minimum spacing
\* has elapsed, pushed into the window.
loop_sample(r, elapsed, f, w) ==
    IF ~r.ok THEN [sampled |-> FALSE, lpf |-> f, window |-> w, pushed |-> FALSE]
    ELSE LET smoothed == LowPassFilter_update(f, Vector3(r.val))
         IN  [sampled |-> TRUE, lpf |-> smoothed,
              window |-> IF elapsed THEN window_push(w, smoothed) ELSE w,
              pushed |-> elapsed]

\* steps 9 and 10 feeding the calibration engine whenever the state is not
\* Measuring
loop_derived_idle(sensor, avg, h, p, lastH, faults) ==
    IF sensor # "Measuring"
    THEN LET r == calibration_engine(avg, p, faults)
         IN  [parameters |-> r.parameters, last_heading |-> lastH,
              events |-> r.events, ok |-> r.ok]
    ELSE LET r == heading_estimator(h, lastH)
         IN  [parameters |-> p, last_heading |-> r.last_heading,
              events |-> r.events, ok |-> TRUE]

\* Steps 9 and 10: Calibrating feeds the average into the calibration
\* engine, Measuring into the heading estimator (whose rounded heading is
\* h); Idle does neither.  ok is FALSE when a panic in the engine has ended
\* the thread.
loop_derived(sensor, avg, h, p, lastH, faults) ==
    IF sensor = "Calibrating"
    THEN LET r == calibration_engine(avg, p, faults)
         IN  [parameters |-> r.parameters, last_heading |-> lastH,
              events |-> r.events, ok |-> r.ok]
    ELSE IF sensor = "Measuring"
    THEN LET r == heading_estimator(h, lastH)
         IN  [parameters |-> p, last_heading |-> r.last_heading,
              events |-> r.events, ok |-> TRUE]
    ELSE [parameters |-> p, last_heading |-> lastH, events |-> <<>>,
          ok |-> TRUE]

\* an iteration sending RawChanged after the events derived from the sample
loop_events_late(avg, derived) == derived \o <<RawChanged(avg)>>

\* Steps 8 to 10 in the order the events are sent: RawChanged with the
\* windowed average, then what the engine or the estimator emitted.
loop_events(avg, derived) == <<RawChanged(avg)>> \o derived

\* the events evs tagged with the iteration n that sent them
Tagged(n, evs) == [i \in 1 .. Len(evs) |-> [n |-> n, event |-> evs[i]]]

\* Responses to the measurement read of an iteration and to the register
\* reads it makes for the values that are not cached: the read fails on the
\* bus, the status byte carries the error bit, a nested register read fails,
\* or a sample is read.
LoopScripts ==
    LET regs == <<RegResp(0, Mixed), RegResp(0, Mixed), RegResp(0, Mixed),
                  RegResp(0, Mixed)>>
    IN  { <<WErr>> \o regs,
          <<OkResp(<<16, 0, 0, 3, 232, 254, 12, 0, 100>>)>> \o regs,
          <<OkResp(<<0, 0, 0, 3, 232, 254, 12, 0, 100>>), RegResp(0, Mixed), RErr,
            RegResp(0, Mixed), RegResp(0, Mixed)>>,
          <<OkResp(<<0, 0, 0, 3, 232, 254, 12, 0, 100>>)>> \o regs,
          <<OkResp(<<0, 0, 0, 0, 10, 0, 20, 255, 246>>)>> \o regs }

\* headings the estimator computes in the iterations explored
LoopHeadings == {1, 50}

\* after construction, or once main has set the storage of every bound up
StoredInit ==
    /\ parameters \in {InitialParameters, StoredParameters}
    /\ fed = <<>>
    /\ emitted = <<>>
    /\ last_heading = 0

\* after init(): the filter has no state, the window is empty
LoopInit ==
    /\ lpf = NoSample
    /\ window = <<>>
    /\ pushes = 0
    /\ iterations = <<>>
    /\ dispatched = <<>>

\* --------------------------------------------------------------------- Motor

\* set_angle calls explored per run.
MaxAngleCalls == 3

\* the i32 arguments set_angle is called with
Angles == {-2147483647, -1, 0, 1, 90, 180, 181, 2147483647}

\* set_angle rejecting only negative angles
set_angle_lower(m, angle) ==
    IF angle < 0
    THEN [angle |-> m.angle, channel |-> m.channel, ok |-> FALSE]
    ELSE [angle |-> angle, channel |-> Append(m.channel, angle), ok |-> TRUE]

\* Motor::set_angle: Err outside 0..=180; otherwise self.angle = angle as u32
\* and tx.send(angle as u32)
set_angle(m, angle) ==
    IF angle > 180 \/ angle < 0
    THEN [angle |-> m.angle, channel |-> m.channel, ok |-> FALSE]
    ELSE [angle |-> angle, channel |-> Append(m.channel, angle), ok |-> TRUE]

\* Motor::get_angle
get_angle(m) == m.angle

\* the greatest product the model computes exactly (2^31 - 1); a u32 holds
\* every product up to 2^32 - 1
MaxProduct == 2147483647

\* TRUE iff a * b is at most MaxProduct, decided without forming the product
Fits(a, b) == b = 0 \/ a <= MaxProduct \div b

\* the pulse time computed as angle * 2000 / 180, without the 500 us offset
pulse_time_nooffset(angle) == (angle * (2500 - 500)) \div 180

\* the motor thread: time = ((angle * (2500 - 500)) / 180) + 500
pulse_time(angle) == ((angle * (2500 - 500)) \div 180) + 500

\* the motor thread: duty_value = (time * (max_duty as u32)) / 20000
duty_value(time, max_duty) == (time * max_duty) \div 20000

\* driver.get_max_duty() of a timer of 13 bits resolution: 2^13 - 1 or 2^13,
\* by the version of the LEDC driver
MaxDuties == {8191, 8192}

\* no pulse set yet
NoPulse == [angle |-> 0, time |-> 0, max_duty |-> 0, duty |-> 0, n |-> 0]

\* The top of an iteration of the loop of the motor thread, send():
\*   if let Ok(end) = end_rx.lock().unwrap().try_recv() { if end { break; } }
\* the stop check leaves the loop on true; the lock on end_rx is released at
\* the end of the statement, before the angle channel is read
motor_check(m) ==
    LET stop == try_recv(m.end_channel)
    IN  IF stop.ok /\ stop.val
        THEN [m EXCEPT !.end_channel = stop.channel, !.thread = "ended"]
        ELSE [m EXCEPT !.end_channel = stop.channel, !.pc = "recv"]

\* The rest of the iteration, past the stop check:
\* rx.lock().unwrap().try_recv() takes the oldest angle, if there is one, the
\* pulse time and the duty value are computed and driver.set_duty(..)? sets
\* the pulse or, failing, ends send() with its Err; then the thread sleeps
\* and is at the stop check again.
motor_send(m, max_duty, duty_ok) ==
    LET next == try_recv(m.channel)
        time == pulse_time(next.val)
    IN  IF ~next.ok
        THEN [m EXCEPT !.pc = "check"]
        ELSE IF ~duty_ok
        THEN [m EXCEPT !.channel = next.channel, !.thread = "failed"]
        ELSE [m EXCEPT !.channel = next.channel, !.pc = "check",
                       !.pulse = [angle |-> next.val, time |-> time,
                                  max_duty |-> max_duty,
                                  duty |-> duty_value(time, max_duty),
                                  n |-> m.pulse.n + 1]]

\* after Motor::new: angle 0, nothing queued on either channel, the thread
\* spawned and at its first stop check
NewMotor ==
    [angle |-> 0, channel |-> <<>>, calls |-> 0, arg |-> 0, ok |-> TRUE,
     pulse |-> NoPulse, end_channel |-> <<>>, ends |-> 0, thread |-> "running",
     pc |-> "check"]

MotorInit == motor = NewMotor

\* ------------------------------------------------------------ EndableHandler

\* objects registered per run, and end_all calls per run
MaxObjects == 3

MaxEndAlls == 2

\* the Endable objects of the program: the magnetometer, the motor, a SmartVar
Endables == {"mlx90393", "motor", "smartvar"}

\* EndableHandler::add: objects.push(object)
add(objects, object) == Append(objects, object)

\* Vec::pop on the objects of end_all: the last entry is removed and
\* returned, None (some FALSE) on the empty list
pop(objects) ==
    IF objects = <<>> THEN [some |-> FALSE, object |-> "", objects |-> objects]
    ELSE [some |-> TRUE, object |-> objects[Len(objects)],
          objects |-> SubSeq(objects, 1, Len(objects) - 1)]

\* after EndableHandler::new(): no object, end_all not running.  ended lists
\* the end() calls in the order made, pre the objects the last end_all
\* found, mark the number of end() calls made before it.
EndableInit ==
    endable = [objects |-> <<>>, ended |-> <<>>, calls |-> 0, pre |-> <<>>,
               mark |-> 0, pc |-> "idle"]

AppInit ==
    /\ StoreInit
    /\ MotorInit
    /\ EndableInit

\* ------------------------------------------------------------------ machine

\* MLX90393Internal::default(): nothing cached
DefaultInternal ==
    [current_gain |-> None, current_resolution |-> None,
     current_filter |-> None, current_oversampling |-> None]

\* no call outstanding: the caller has taken the previous result
NoCall ==
    [op |-> "none", arg |-> <<>>, ok |-> TRUE, val |-> <<>>, err |-> NoErr,
     bus |-> <<>>, pre |-> DefaultInternal]

\* the driver's side of the bus after construction
BusInit ==
    /\ internal = DefaultInternal
    /\ last = NoCall

Init ==
    /\ BusInit
    /\ EventInit
    /\ StateInit
    /\ ThreadInit
    /\ SampleInit
    /\ LoopInit
    /\ DeviceInit
    /\ SmartInit
    /\ AppInit

\* the sampling loop started before or after main has set the storage up
InitStored ==
    /\ BusInit
    /\ EventInit
    /\ StateInit
    /\ ThreadInit
    /\ StoredInit
    /\ LoopInit
    /\ DeviceInit
    /\ SmartInit
    /\ AppInit

\* number of configuration values cached in c
Cached(c) ==
    Cardinality({f \in {"current_gain", "current_resolution", "current_filter",
                        "current_oversampling"} : c[f] # None})

\* One call op(arg) with result r: the cache it leaves and the record of the
\* call (its result, its transactions, the cache before it).
Call(op, arg, r) ==
    /\ last.op = "none"
    /\ r.cache # internal => Cached(r.cache) <= MaxCached
    /\ internal' = r.cache
    /\ last' = [op |-> op, arg |-> arg, ok |-> r.ok, val |-> r.val, err |-> r.err,
                bus |-> r.bus, pre |-> internal]
    /\ UNCHANGED <<eventVars, stateVars, threadVars, sampleVars,
                   loopVars, deviceVars, smartVars, appVars>>

\* The caller takes the result; the driver is ready for the next call.
Return ==
    /\ last.op # "none"
    /\ last' = NoCall
    /\ UNCHANGED <<internal, eventVars, stateVars, threadVars, sampleVars,
                   loopVars, deviceVars, smartVars, appVars>>

ReadRegister ==
    \E reg \in {CONF1, CONF2, CONF3}, resp \in RegReadResps :
        Call("read_register", <<reg>>, read_register(reg, internal, <<resp>>))

WriteRegister ==
    \E reg \in {CONF1, CONF2, CONF3}, v \in RegValues, resp \in WriteResps :
        Call("write_register", <<reg, v>>, write_register(reg, v, internal, <<resp>>))

StartSingleMeasurement ==
    \E resp \in CmdResps :
        Call("start_single_measurement", <<>>, start_single_measurement(internal, <<resp>>))

StartBurstMeasurement ==
    \E resp \in CmdResps :
        Call("start_burst_measurement", <<>>, start_burst_measurement(internal, <<resp>>))

StartWakeupMeasurement ==
    \E resp \in CmdResps :
        Call("start_wakeup_measurement", <<>>, start_wakeup_measurement(internal, <<resp>>))

ExitMode ==
    \E resp \in CmdResps : Call("exit_mode", <<>>, exit_mode(internal, <<resp>>))

Reset ==
    \E resp \in CmdResps : Call("reset", <<>>, reset(internal, <<resp>>))

SetGain ==
    \E g \in MLX90393GAIN, rs \in SetterScripts :
        Call("set_gain", <<g>>, set_gain(g, internal, rs))

GetGain ==
    \E resp \in RegReadResps : Call("get_gain", <<>>, get_gain(internal, <<resp>>))

SetResolution ==
    \E axis \in MLX90393AXIS, res \in MLX90393RESOLUTION, rs \in SetterScripts :
        Call("set_resolution", <<axis, res>>, set_resolution(axis, res, internal, rs))

GetResolution ==
    \E axis \in MLX90393AXIS, resp \in RegReadResps :
        Call("get_resolution", <<axis>>, get_resolution(axis, internal, <<resp>>))

SetFilter ==
    \E f \in MLX90393FILTER, rs \in SetterScripts :
        Call("set_filter", <<f>>, set_filter(f, internal, rs))

GetFilter ==
    \E resp \in RegReadResps : Call("get_filter", <<>>, get_filter(internal, <<resp>>))

SetOversampling ==
    \E o \in MLX90393OVERSAMPLING, rs \in SetterScripts :
        Call("set_oversampling", <<o>>, set_oversampling(o, internal, rs))

GetOversampling ==
    \E resp \in RegReadResps :
        Call("get_oversampling", <<>>, get_oversampling(internal, <<resp>>))

SetTriggerInterval ==
    \E state \in BOOLEAN, rs \in SetterScripts :
        Call("set_trigger_interval", <<state>>, set_trigger_interval(state, internal, rs))

SetWakeupComparator ==
    \E comparator \in BOOLEAN, rs \in SetterScripts :
        Call("set_wakeup_comparator", <<comparator>>,
             set_wakeup_comparator(comparator, internal, rs))

ReadMeasurement ==
    \E m \in MeasResps, n \in NestedScripts :
        Call("read_measurement", <<>>, read_measurement(internal, <<m>> \o n))

Next ==
    \/ ReadRegister
    \/ WriteRegister
    \/ StartSingleMeasurement
    \/ StartBurstMeasurement
    \/ StartWakeupMeasurement
    \/ ExitMode
    \/ Reset
    \/ SetGain
    \/ GetGain
    \/ SetResolution
    \/ GetResolution
    \/ SetFilter
    \/ GetFilter
    \/ SetOversampling
    \/ GetOversampling
    \/ SetTriggerInterval
    \/ SetWakeupComparator
    \/ ReadMeasurement
    \/ Return

Spec == Init /\ [][Next]_vars

\* ----------------------------------------- the decoder on a configured driver

\* A CONF3 value with the given per-axis resolutions, as set_resolution builds
\* and caches it, over register content base.
Conf3With(base, rx, ry, rz) ==
    BitOr(BitAnd(base, Not16(2016)),
          BitOr(Shl16(rx, 5), BitOr(Shl16(ry, 7), Shl16(rz, 9))))

\* Caches after a successful set_gain and successful set_resolution calls:
\* every gain and every combination of per-axis resolutions, over a register
\* whose other bits are all clear or all set.
ConfiguredInternals ==
    { [DefaultInternal EXCEPT !.current_gain = g,
                              !.current_resolution = Conf3With(base, rx, ry, rz)] :
        g \in MLX90393GAIN, base \in {0, 65535},
        rx \in MLX90393RESOLUTION, ry \in MLX90393RESOLUTION,
        rz \in MLX90393RESOLUTION }

InitConfigured ==
    /\ internal \in ConfiguredInternals
    /\ last = NoCall
    /\ EventInit
    /\ StateInit
    /\ ThreadInit
    /\ SampleInit
    /\ LoopInit
    /\ DeviceInit
    /\ SmartInit
    /\ AppInit

NextConfigured ==
    \/ ReadMeasurement
    \/ Return

SpecDecode == InitConfigured /\ [][NextConfigured]_vars

\* ------------------------------------------------------ the event dispatcher

\* add_handler(handler) with a new subscriber
AddHandler ==
    /\ running
    /\ Len(handlers) < MaxHandlers
    /\ \E h \in HandlerIds \ Range(handlers) :
           handlers' = add_handler(h, handlers)
    /\ UNCHANGED <<poisoned, running, sent>>
    /\ UNCHANGED <<busVars, stateVars, threadVars, sampleVars,
                   loopVars, deviceVars, smartVars, appVars>>

\* send_event(event), the subscribers in faulty panicking on it.  A panic
\* that leaves send_event either aborts the program or unwinds into the
\* caller, which is the build's choice.
SendEvent ==
    /\ running
    /\ \E event \in Events, faulty \in SUBSET Range(handlers) :
           LET r == send_event(event, handlers, poisoned, faulty)
           IN  /\ poisoned' = r.poisoned
               /\ sent' = [event |-> event, pre |-> handlers,
                           calls |-> r.calls, ok |-> r.ok]
               /\ running' \in (IF r.ok THEN {TRUE} ELSE BOOLEAN)
    /\ UNCHANGED handlers
    /\ UNCHANGED <<busVars, stateVars, threadVars, sampleVars,
                   loopVars, deviceVars, smartVars, appVars>>

NextEvents ==
    \/ AddHandler
    \/ SendEvent

SpecEvents == Init /\ [][NextEvents]_vars

\* ------------------------------------------- lifecycle and the sampling thread

\* start(): sets state to Measuring
Start ==
    /\ handle = "alive"
    /\ caller = "ready"
    /\ LET r == set_state("Measuring", sensor_state)
       IN  sensor_state' = r.state /\ last_state' = r.last_state
    /\ called' = "start"
    /\ UNCHANGED caller
    /\ UNCHANGED <<busVars, eventVars, threadVars, sampleVars,
                   loopVars, deviceVars, smartVars, appVars>>

\* calibrate(timeout) up to its sleep: sets state to Calibrating
Calibrate ==
    /\ handle = "alive"
    /\ caller = "ready"
    /\ LET r == set_state("Calibrating", sensor_state)
       IN  sensor_state' = r.state /\ last_state' = r.last_state
    /\ called' = "calibrate"
    /\ caller' = "sleeping"
    /\ UNCHANGED <<busVars, eventVars, threadVars, sampleVars,
                   loopVars, deviceVars, smartVars, appVars>>

\* calibrate(timeout) from the end of its sleep: sets state back to Idle and
\* returns
CalibrateTimeout ==
    /\ caller = "sleeping"
    /\ LET r == set_state("Idle", sensor_state)
       IN  sensor_state' = r.state /\ last_state' = r.last_state
    /\ called' = "calibrated"
    /\ caller' = "ready"
    /\ UNCHANGED <<busVars, eventVars, threadVars, sampleVars,
                   loopVars, deviceVars, smartVars, appVars>>

\* end(): sends true on the stop channel, and nothing else
End ==
    /\ handle = "alive"
    /\ ends < MaxEnds
    /\ channel' = end(channel)
    /\ ends' = ends + 1
    /\ called' = "end"
    /\ UNCHANGED <<sensor_state, last_state, caller, thread, handle>>
    /\ UNCHANGED <<busVars, eventVars, sampleVars,
                   loopVars, deviceVars, smartVars, appVars>>

\* sensor_thread at the top of an iteration
SensorThreadCheck ==
    /\ thread = "check"
    /\ LET r == sensor_thread_check(channel)
       IN  thread' = r.thread /\ channel' = r.channel
    /\ UNCHANGED <<ends, handle>>
    /\ UNCHANGED <<busVars, eventVars, stateVars, sampleVars,
                   loopVars, deviceVars, smartVars, appVars>>

\* sensor_thread: thread::sleep(1000 ms), then the next iteration
SensorThreadSleep ==
    /\ thread = "sleep"
    /\ thread' = "check"
    /\ UNCHANGED <<channel, ends, handle>>
    /\ UNCHANGED <<busVars, eventVars, stateVars, sampleVars,
                   loopVars, deviceVars, smartVars, appVars>>

\* The handle is dropped: impl Drop logs and does nothing else; the Sender
\* goes with the handle, the thread keeps its Receiver and what is queued.
DropHandle ==
    /\ handle = "alive"
    /\ caller = "ready"
    /\ handle' = "dropped"
    /\ UNCHANGED <<channel, ends, thread>>
    /\ UNCHANGED <<busVars, eventVars, stateVars, sampleVars,
                   loopVars, deviceVars, smartVars, appVars>>

NextLifecycle ==
    \/ Start
    \/ Calibrate
    \/ CalibrateTimeout
    \/ End
    \/ SensorThreadCheck
    \/ SensorThreadSleep
    \/ DropHandle

SpecLifecycle == Init /\ [][NextLifecycle]_vars

\* The sampling thread is an OS thread of its own: it is scheduled again and
\* again, and its sleep ends.
SpecLifecycleFair ==
    /\ Init
    /\ [][NextLifecycle]_vars
    /\ WF_vars(SensorThreadCheck)
    /\ WF_vars(SensorThreadSleep)

\* ----------------------------------------------- the sampling loop's samples

\* One iteration of the sampling loop that produced the windowed average avg
\* and observed state Calibrating: RawChanged, then the calibration engine,
\* whose set() calls meet faults.  A panic in the engine ends the thread.
SampleCalibrating ==
    /\ sensor_state = "Calibrating"
    /\ thread # "panicked"
    /\ Len(fed) < MaxCalibrationSamples
    /\ \E avg \in Samples, faults \in SetFaults :
       \E r \in {calibration_engine(avg, parameters, faults)} :
           /\ parameters' = r.parameters
           /\ fed' = Append(fed, [avg |-> avg, heading |-> None,
                                  before |-> Bounds(parameters),
                                  after |-> Bounds(r.parameters),
                                  last |-> last_heading, diff |-> None,
                                  events |-> r.events, ok |-> r.ok])
           /\ emitted' = emitted \o <<RawChanged(avg)>> \o r.events
           /\ thread' = IF r.ok THEN thread ELSE "panicked"
    /\ UNCHANGED <<last_heading, channel, ends, handle>>
    /\ UNCHANGED <<busVars, eventVars, stateVars,
                   loopVars, deviceVars, smartVars, appVars>>

\* The worker of one of the bounds, an iteration that finds an event queued:
\* its handlers are invoked with the value.  The worker of a bound whose
\* Mutex is poisoned has ended in lock().unwrap().
BoundWorker ==
    /\ Received(parameters) < MaxDeliveries
    /\ \E name \in BoundNames :
           /\ ~parameters[name].poisoned
           /\ parameters[name].channel # <<>>
           /\ parameters' = [parameters EXCEPT ![name] = smartvar_worker(@)]
    /\ UNCHANGED <<fed, emitted, last_heading>>
    /\ UNCHANGED <<busVars, eventVars, stateVars, threadVars,
                   loopVars, deviceVars, smartVars, appVars>>

\* One iteration of the sampling loop that observed state Measuring and whose
\* rounded heading is h: RawChanged, then the heading estimator.
Measure(h) ==
    /\ sensor_state = "Measuring"
    /\ LET r == heading_estimator(h, last_heading)
       IN  /\ last_heading' = r.last_heading
           /\ fed' = Append(fed, [avg |-> MeasuredAvg, heading |-> h,
                                  before |-> Bounds(parameters),
                                  after |-> Bounds(parameters),
                                  last |-> last_heading, diff |-> r.diff,
                                  events |-> r.events, ok |-> TRUE])
           /\ emitted' = emitted \o <<RawChanged(MeasuredAvg)>> \o r.events
    /\ UNCHANGED parameters
    /\ UNCHANGED <<busVars, eventVars, stateVars, threadVars,
                   loopVars, deviceVars, smartVars, appVars>>

SampleMeasuring ==
    /\ Len(fed) < MaxHeadingSamples
    /\ \E h \in Headings : Measure(h)

NextCalibration ==
    \/ Calibrate
    \/ CalibrateTimeout
    \/ SampleCalibrating

SpecCalibration == InitStored /\ [][NextCalibration]_vars

\* The calibration with the workers of the bounds running.
NextBounds ==
    \/ Calibrate
    \/ CalibrateTimeout
    \/ SampleCalibrating
    \/ BoundWorker

SpecBounds == InitStored /\ [][NextBounds]_vars

NextHeading ==
    \/ Start
    \/ SampleMeasuring

SpecHeading == Init /\ [][NextHeading]_vars

\* The heading estimator applied once to every pair of a last emitted heading
\* and a new heading.
InitDistance ==
    /\ BusInit
    /\ EventInit
    /\ ThreadInit
    /\ sensor_state = "Measuring"
    /\ last_state = "Idle"
    /\ called = "start"
    /\ caller = "ready"
    /\ parameters = InitialParameters
    /\ fed = <<>>
    /\ emitted = <<>>
    /\ last_heading \in AllHeadings
    /\ LoopInit
    /\ DeviceInit
    /\ SmartInit
    /\ AppInit

MeasureOnce ==
    /\ fed = <<>>
    /\ \E h \in AllHeadings : Measure(h)

SpecDistance == InitDistance /\ [][MeasureOnce]_vars

\* ------------------------------------------------ the sampling loop's body

RECURSIVE send_events(_, _, _, _)
\* send_event on each of evs in order, no subscriber panicking: the record of
\* the last send_event and the invocations made, oldest first
send_events(evs, hs, poison, before) ==
    IF evs = <<>> THEN before
    ELSE LET r == send_event(Head(evs), hs, poison, {})
         IN  send_events(Tail(evs), hs, r.poisoned,
                         [poisoned |-> r.poisoned,
                          sent |-> [event |-> Head(evs), pre |-> hs,
                                    calls |-> r.calls, ok |-> r.ok],
                          calls |-> before.calls \o r.calls])

\* One iteration of the loop body after the stop check (steps 2 to 10): the
\* measurement read answered by rs, the minimum spacing elapsed or not, and h
\* the rounded heading the estimator computes if it runs.
Iteration(rs, elapsed, h, faults) ==
    \E r \in {read_measurement(internal, rs)} :
    \E s \in {loop_sample(r, elapsed, lpf, window)} :
    \E avg \in {IF s.sampled THEN windowed_average(s.window, sensor_state)
                ELSE NoSample} :
    \E d \in {IF s.sampled
              THEN loop_derived(sensor_state, avg, h, parameters, last_heading,
                                faults)
              ELSE [parameters |-> parameters, last_heading |-> last_heading,
                    events |-> <<>>, ok |-> TRUE]} :
    \E evs \in {IF s.sampled THEN loop_events(avg, d.events) ELSE <<>>} :
    \E e \in {send_events(evs, handlers, poisoned,
                          [poisoned |-> poisoned, sent |-> sent, calls |-> <<>>])} :
        /\ thread' = IF d.ok THEN "check" ELSE "panicked"
        /\ lpf' = s.lpf
        /\ window' = s.window
        /\ pushes' = pushes + (IF s.pushed THEN 1 ELSE 0)
        /\ parameters' = d.parameters
        /\ last_heading' = d.last_heading
        /\ emitted' = emitted \o evs
        /\ dispatched' = dispatched \o Tagged(Len(iterations) + 1, evs)
        /\ poisoned' = e.poisoned
        /\ sent' = e.sent
        /\ iterations' =
               Append(iterations,
                      [state |-> sensor_state, ok |-> r.ok, err |-> r.err,
                       bus |-> r.bus, pushed |-> s.pushed, avg |-> avg,
                       events |-> evs, calls |-> e.calls, panicked |-> ~d.ok,
                       window |-> window, parameters |-> Bounds(parameters),
                       last_heading |-> last_heading, lpf |-> lpf])

Iterate ==
    /\ thread = "sleep"
    /\ running
    /\ Len(iterations) < MaxIterations
    /\ \E rs \in LoopScripts,
          elapsed \in (IF window = <<>> THEN {TRUE} ELSE BOOLEAN),
          h \in (IF sensor_state = "Measuring" THEN LoopHeadings ELSE {0}),
          faults \in (IF sensor_state = "Calibrating" THEN SetFaults ELSE {NoFault}) :
           Iteration(rs, elapsed, h, faults)
    /\ UNCHANGED <<internal, last, handlers, running, fed, channel, ends, handle>>
    /\ UNCHANGED <<stateVars, deviceVars, smartVars, appVars>>

NextSampling ==
    \/ Start
    \/ Calibrate
    \/ CalibrateTimeout
    \/ SensorThreadCheck
    \/ Iterate

SpecSampling == InitStored /\ [][NextSampling]_vars

\* the k-th smoothed sample to arrive at the window
Arrival(k) == V3(k, -k, 2 * k)

\* The window alone: one smoothed sample arrives and is pushed.
PushSample ==
    /\ pushes < MaxPushes
    /\ window' = window_push(window, Arrival(pushes + 1))
    /\ pushes' = pushes + 1
    /\ UNCHANGED <<lpf, iterations, dispatched>>
    /\ UNCHANGED <<busVars, eventVars, stateVars, threadVars, sampleVars,
                   deviceVars, smartVars, appVars>>

SpecWindow == Init /\ [][PushSample]_vars

\* -------------------------------- SmartVar: main, BLE server and the worker

\* main, setup_storage: parameters.x.lock().unwrap() takes the SmartVar; on
\* a poisoned Mutex unwrap() panics
MainLock ==
    /\ pc.main = "bt_started"
    /\ Free(VarLock, held)
    /\ IF store.poisoned
       THEN /\ pc' = [pc EXCEPT !.main = "panicked"]
            /\ UNCHANGED held
       ELSE /\ held' = [held EXCEPT !.main = <<VarLock>>]
            /\ pc' = [pc EXCEPT !.main = "storage"]
    /\ UNCHANGED <<sv_value, sv_channel, sv_handlers, delivered>>
    /\ UNCHANGED <<busVars, eventVars, stateVars, threadVars, sampleVars,
                   loopVars, deviceVars, appVars>>

\* Where load() panics: EspDefaultNvsPartition::take().unwrap(), the panic!
\* on EspNvs::new, get_raw(..).unwrap(), and try_into().unwrap() on a stored
\* entry that is not four bytes long.
LoadPanics == {"take", "new", "get_raw", "try_into"}

\* main, setup_storage up to the read in load(): namespace and storage_name
\* are assigned, then get_partition_namespace and
\* nvs.lock().unwrap().get_raw(..) find the stored entry or none; or one of
\* them panics (try_into only on an entry found): the panic unwinds through
\* the guard main holds on the SmartVar, whose Mutex is poisoned, and main
\* ends, the two names staying set
MainReadNvs ==
    /\ pc.main = "storage"
    /\ \/ /\ pc' = [pc EXCEPT !.main = "read",
                               !.event = IF store.nvs = <<>> THEN None
                                         ELSE store.nvs[1]]
          /\ held' = [held EXCEPT !.main = <<VarLock, NvsLock>>]
          /\ store' = [store EXCEPT !.namespace = TRUE, !.storage_name = TRUE]
       \/ /\ \E panic \in LoadPanics :
                 /\ panic = "try_into" => store.nvs # <<>>
                 /\ pc' = [pc EXCEPT !.main = "panicked"]
          /\ held' = [held EXCEPT !.main = <<>>]
          /\ store' = [store EXCEPT !.namespace = TRUE, !.storage_name = TRUE,
                                    !.poisoned = TRUE]
    /\ UNCHANGED <<sv_value, sv_channel, sv_handlers, delivered, motor, endable>>
    /\ UNCHANGED <<busVars, eventVars, stateVars, threadVars, sampleVars,
                   loopVars, deviceVars>>

\* main, the rest of load() and of setup_storage: the value is replaced, the
\* Changed event queued, the SmartVar released
MainLoad ==
    /\ pc.main = "read"
    /\ LET r == load(sv_value, sv_channel,
                     IF pc.event = None THEN <<>> ELSE <<pc.event>>)
       IN  sv_value' = r.value /\ sv_channel' = r.channel
    /\ held' = [held EXCEPT !.main = <<>>]
    /\ pc' = [pc EXCEPT !.main = "loaded"]
    /\ UNCHANGED <<sv_handlers, delivered>>
    /\ UNCHANGED <<busVars, eventVars, stateVars, threadVars, sampleVars,
                   loopVars, deviceVars, appVars>>

\* ble_server, after the advertisement has started:
\*   parameter.lock().unwrap().add_handler(..)
\* for the next handler; the thread then loops for ever.  On a poisoned
\* Mutex unwrap() panics and the thread ends.
BleAddHandler ==
    /\ pc.ble = "advertising"
    /\ Free(VarLock, held)
    /\ IF store.poisoned
       THEN /\ pc' = [pc EXCEPT !.ble = "panicked"]
            /\ UNCHANGED sv_handlers
       ELSE /\ sv_handlers' = smartvar_add_handler(sv_handlers, Len(sv_handlers) + 1)
            /\ pc' = [pc EXCEPT !.ble = IF Len(sv_handlers) + 1 = MaxSmartHandlers
                                        THEN "registered" ELSE "advertising"]
    /\ UNCHANGED <<sv_value, sv_channel, delivered, held>>
    /\ UNCHANGED <<busVars, eventVars, stateVars, threadVars, sampleVars,
                   loopVars, deviceVars, appVars>>

\* worker, top of an iteration: me_shared.lock().unwrap(); on a poisoned
\* Mutex unwrap() panics and the worker ends
WorkerLock ==
    /\ pc.worker = "sleep"
    /\ Free(VarLock, held)
    /\ IF store.poisoned
       THEN /\ pc' = [pc EXCEPT !.worker = "panicked"]
            /\ UNCHANGED held
       ELSE /\ held' = [held EXCEPT !.worker = <<VarLock>>]
            /\ pc' = [pc EXCEPT !.worker = "locked"]
    /\ UNCHANGED <<sv_value, sv_channel, sv_handlers, delivered>>
    /\ UNCHANGED <<busVars, eventVars, stateVars, threadVars, sampleVars,
                   loopVars, deviceVars, appVars>>

\* worker, under the lock: the stop check end_channel.1.try_recv(), on true
\* the loop is left, the lock dropped and the thread ends; otherwise
\* channel.1.try_recv(): nothing queued, the lock is dropped and the worker
\* sleeps; or the oldest event is taken and the loop over the handlers begins
WorkerRecv ==
    /\ pc.worker = "locked"
    /\ \E stop \in {try_recv(store.end_channel)} :
           /\ store' = [store EXCEPT !.end_channel = stop.channel]
           /\ IF stop.ok /\ stop.val
              THEN /\ held' = [held EXCEPT !.worker = <<>>]
                   /\ pc' = [pc EXCEPT !.worker = "ended"]
                   /\ UNCHANGED sv_channel
              ELSE IF sv_channel = <<>>
              THEN /\ held' = [held EXCEPT !.worker = <<>>]
                   /\ pc' = [pc EXCEPT !.worker = "sleep"]
                   /\ UNCHANGED sv_channel
              ELSE /\ pc' = [pc EXCEPT !.worker = "deliver", !.i = 1,
                                       !.received = Head(sv_channel).value]
                   /\ sv_channel' = Tail(sv_channel)
                   /\ UNCHANGED held
    /\ UNCHANGED <<sv_value, sv_handlers, delivered, motor, endable>>
    /\ UNCHANGED <<busVars, eventVars, stateVars, threadVars, sampleVars,
                   loopVars, deviceVars>>

\* worker, one handler of the for loop: its locks are taken and it is invoked
\* with the value of the event
WorkerInvoke ==
    /\ pc.worker = "deliver"
    /\ pc.i <= Len(sv_handlers)
    /\ held' = [held EXCEPT !.worker = @ \o worker_locks(sv_handlers[pc.i])]
    /\ delivered' = Append(delivered, <<sv_handlers[pc.i], pc.received>>)
    /\ pc' = [pc EXCEPT !.worker = "invoked"]
    /\ UNCHANGED <<sv_value, sv_channel, sv_handlers>>
    /\ UNCHANGED <<busVars, eventVars, stateVars, threadVars, sampleVars,
                   loopVars, deviceVars, appVars>>

\* worker, the handler has returned: the guards of the statement are dropped
WorkerReturn ==
    /\ pc.worker = "invoked"
    /\ held' = [held EXCEPT !.worker = <<VarLock>>]
    /\ pc' = [pc EXCEPT !.worker = "deliver", !.i = @ + 1]
    /\ UNCHANGED <<sv_value, sv_channel, sv_handlers, delivered>>
    /\ UNCHANGED <<busVars, eventVars, stateVars, threadVars, sampleVars,
                   loopVars, deviceVars, appVars>>

\* worker, the for loop is over: the SmartVar is released, then
\* thread::sleep(100 ms)
WorkerUnlock ==
    /\ pc.worker = "deliver"
    /\ pc.i > Len(sv_handlers)
    /\ held' = [held EXCEPT !.worker = <<>>]
    /\ pc' = [pc EXCEPT !.worker = "sleep", !.i = 0, !.received = 0]
    /\ UNCHANGED <<sv_value, sv_channel, sv_handlers, delivered>>
    /\ UNCHANGED <<busVars, eventVars, stateVars, threadVars, sampleVars,
                   loopVars, deviceVars, appVars>>

NextSmartVar ==
    \/ MainLock
    \/ MainReadNvs
    \/ MainLoad
    \/ BleAddHandler
    \/ WorkerLock
    \/ WorkerRecv
    \/ WorkerInvoke
    \/ WorkerReturn
    \/ WorkerUnlock

\* The partition holds no entry for the bound, or one from an earlier run.
InitSmartVar ==
    /\ BusInit
    /\ EventInit
    /\ StateInit
    /\ ThreadInit
    /\ SampleInit
    /\ LoopInit
    /\ DeviceInit
    /\ SmartInit
    /\ \E stored \in {<<>>} \cup {<<v>> : v \in StoredValues} :
           store = [NewStore EXCEPT !.nvs = stored]
    /\ MotorInit
    /\ EndableInit

SpecSmartVar == InitSmartVar /\ [][NextSmartVar]_vars

\* ------------------------------------- the driver against a storing device

\* configuration values the calls against the device are explored with
DeviceGains == {2, 5}

DeviceResolutions == {1, 2}

DeviceFilters == {2, 5}

DeviceOversamplings == {1, 2}

\* One call op(arg) = F against the device: its transactions are answered
\* from the registers, under the faults fs; the device stores what a
\* successful write transaction carries.
DeviceCall(op, arg, F(_)) ==
    /\ last.op = "none"
    /\ \E fs \in Faults \X Faults :
       \E w \in {WithDevice(F, device, writes, fs)} :
           /\ w.writes.n <= MaxWrites
           /\ internal' = w.r.cache
           /\ last' = [op |-> op, arg |-> arg, ok |-> w.r.ok, val |-> w.r.val,
                       err |-> w.r.err, bus |-> w.r.bus, pre |-> internal]
           /\ device' = w.device
           /\ writes' = w.writes
    /\ UNCHANGED <<eventVars, stateVars, threadVars, sampleVars, loopVars, smartVars, appVars>>

DeviceSetGain ==
    \E g \in DeviceGains :
        DeviceCall("set_gain", <<g>>, LAMBDA rs : set_gain(g, internal, rs))

DeviceGetGain ==
    DeviceCall("get_gain", <<>>, LAMBDA rs : get_gain(internal, rs))

DeviceSetResolution ==
    \E axis \in MLX90393AXIS, res \in DeviceResolutions :
        DeviceCall("set_resolution", <<axis, res>>,
                   LAMBDA rs : set_resolution(axis, res, internal, rs))

DeviceGetResolution ==
    \E axis \in MLX90393AXIS :
        DeviceCall("get_resolution", <<axis>>,
                   LAMBDA rs : get_resolution(axis, internal, rs))

DeviceSetFilter ==
    \E f \in DeviceFilters :
        DeviceCall("set_filter", <<f>>, LAMBDA rs : set_filter(f, internal, rs))

DeviceGetFilter ==
    DeviceCall("get_filter", <<>>, LAMBDA rs : get_filter(internal, rs))

DeviceSetOversampling ==
    \E o \in DeviceOversamplings :
        DeviceCall("set_oversampling", <<o>>,
                   LAMBDA rs : set_oversampling(o, internal, rs))

DeviceGetOversampling ==
    DeviceCall("get_oversampling", <<>>, LAMBDA rs : get_oversampling(internal, rs))

\* the driver after construction, the device with any register contents
InitDevice ==
    /\ BusInit
    /\ EventInit
    /\ StateInit
    /\ ThreadInit
    /\ SampleInit
    /\ LoopInit
    /\ SmartInit
    /\ AppInit
    /\ device \in DeviceContents
    /\ writes = NoWrite

NextDevice ==
    \/ DeviceSetGain
    \/ DeviceGetGain
    \/ DeviceSetResolution
    \/ DeviceGetResolution
    \/ DeviceSetFilter
    \/ DeviceGetFilter
    \/ DeviceSetOversampling
    \/ DeviceGetOversampling
    \/ Return

SpecDevice == InitDevice /\ [][NextDevice]_vars

\* write_register(reg, v) on a device not yet written, for every 16-bit v
DeviceWriteRegister ==
    /\ last.op = "none"
    /\ writes = NoWrite
    /\ \E reg \in {CONF1, CONF2, CONF3}, v \in 0 .. 65535 :
       \E w \in {WithDevice(LAMBDA rs : write_register(reg, v, internal, rs),
                            device, writes, <<"none", "none">>)} :
           /\ internal' = w.r.cache
           /\ last' = [op |-> "write_register", arg |-> <<reg, v>>, ok |-> w.r.ok,
                       val |-> w.r.val, err |-> w.r.err, bus |-> w.r.bus,
                       pre |-> internal]
           /\ device' = w.device
           /\ writes' = w.writes
    /\ UNCHANGED <<eventVars, stateVars, threadVars, sampleVars, loopVars, smartVars, appVars>>

\* read_register(reg) on the device after the write
DeviceReadRegister ==
    /\ last.op = "none"
    /\ writes # NoWrite
    /\ \E reg \in {CONF1, CONF2, CONF3} :
       \E w \in {WithDevice(LAMBDA rs : read_register(reg, internal, rs),
                            device, writes, <<"none", "none">>)} :
           /\ internal' = w.r.cache
           /\ last' = [op |-> "read_register", arg |-> <<reg>>, ok |-> w.r.ok,
                       val |-> w.r.val, err |-> w.r.err, bus |-> w.r.bus,
                       pre |-> internal]
           /\ device' = w.device
           /\ writes' = w.writes
    /\ UNCHANGED <<eventVars, stateVars, threadVars, sampleVars, loopVars, smartVars, appVars>>

NextRegisters ==
    \/ DeviceWriteRegister
    \/ DeviceReadRegister
    \/ Return

SpecRegisters == Init /\ [][NextRegisters]_vars

\* ------------------------------- mode commands on a configured, running driver

\* Caches the setters leave: nothing cached, gain and resolution cached (as
\* after the configuration of main), and all four cached.
ModeInternals ==
    { DefaultInternal,
      [DefaultInternal EXCEPT !.current_gain = 5,
                              !.current_resolution = Conf3With(0, 1, 2, 3)],
      [current_gain |-> 2, current_resolution |-> Conf3With(65535, 2, 0, 1),
       current_filter |-> 6, current_oversampling |-> 3] }

InitModes ==
    /\ internal \in ModeInternals
    /\ last = NoCall
    /\ EventInit
    /\ StateInit
    /\ ThreadInit
    /\ SampleInit
    /\ LoopInit
    /\ DeviceInit
    /\ SmartInit
    /\ AppInit

\* set_state(s), for each state s
SetState ==
    /\ last.op = "none"
    /\ \E s \in MagSensorState :
       \E r \in {set_state(s, sensor_state)} :
           /\ sensor_state' = r.state
           /\ last_state' = r.last_state
           /\ last' = [NoCall EXCEPT !.op = "set_state", !.arg = <<s>>, !.pre = internal]
    /\ UNCHANGED <<internal, called, caller>>
    /\ UNCHANGED <<eventVars, threadVars, sampleVars, loopVars, deviceVars, smartVars, appVars>>

\* The one-byte commands and the getters, between calls of add_handler and
\* set_state.
NextModes ==
    \/ StartSingleMeasurement
    \/ StartBurstMeasurement
    \/ StartWakeupMeasurement
    \/ ExitMode
    \/ Reset
    \/ GetGain
    \/ GetResolution
    \/ GetFilter
    \/ GetOversampling
    \/ Return
    \/ AddHandler
    \/ SetState

SpecModes == InitModes /\ [][NextModes]_vars

\* ------------------------------------- the getters on every register content

\* The getters on a driver with nothing cached, the device answering the
\* register read with status 0 and the content v, for every 16-bit v.
AnyGetGain ==
    /\ last.op = "none"
    /\ \E v \in 0 .. 65535 :
           Call("get_gain", <<>>, get_gain(internal, <<RegResp(0, v)>>))

AnyGetResolution ==
    /\ last.op = "none"
    /\ \E axis \in {AXIS_X, AXIS_Y, AXIS_Z}, v \in 0 .. 65535 :
           Call("get_resolution", <<axis>>, get_resolution(axis, internal, <<RegResp(0, v)>>))

AnyGetFilter ==
    /\ last.op = "none"
    /\ \E v \in 0 .. 65535 :
           Call("get_filter", <<>>, get_filter(internal, <<RegResp(0, v)>>))

AnyGetOversampling ==
    /\ last.op = "none"
    /\ \E v \in 0 .. 65535 :
           Call("get_oversampling", <<>>, get_oversampling(internal, <<RegResp(0, v)>>))

\* Register contents with every combination of bits 4 to 10, where the gain
\* and resolution fields lie, the other bits all clear or all set (0xF80F).
FieldContents == {16 * k + rest : k \in 0 .. 127, rest \in {0, 63503}}

\* read_measurement with CONF1 and CONF3 both holding v
AnyReadMeasurement ==
    /\ last.op = "none"
    /\ \E v \in FieldContents :
           Call("read_measurement", <<>>,
                read_measurement(internal,
                    <<OkResp(<<0, 0, 0, 3, 232, 254, 12, 0, 100>>),
                      RegResp(0, v), RegResp(0, v), RegResp(0, v), RegResp(0, v)>>))

NextTotal ==
    \/ AnyGetGain
    \/ AnyGetResolution
    \/ AnyGetFilter
    \/ AnyGetOversampling
    \/ AnyReadMeasurement
    \/ Return

SpecTotal == Init /\ [][NextTotal]_vars

\* ------------------------------------------- the stop check on every message

\* false values queued on the stop channel when the thread starts
MaxFalse == 2

\* The thread's stop check takes whatever bool the channel holds: the thread
\* starts on a channel holding up to MaxFalse false values.
InitThread ==
    /\ BusInit
    /\ EventInit
    /\ StateInit
    /\ channel \in {[i \in 1 .. n |-> FALSE] : n \in 0 .. MaxFalse}
    /\ ends = 0
    /\ thread = "check"
    /\ handle = "alive"
    /\ SampleInit
    /\ LoopInit
    /\ DeviceInit
    /\ SmartInit
    /\ AppInit

\* The sampling thread (stop check, iteration, sleep) and the calls of end()
\* and the drop of the handle.
NextThread ==
    \/ SensorThreadCheck
    \/ SensorThreadSleep
    \/ Iterate
    \/ End
    \/ DropHandle

SpecThread == InitThread /\ [][NextThread]_vars

\* ------------------------------------- SmartVar: set, get and the deliveries

\* the SmartVar as set(), get() and setup_storage() see it
SmartVarNow ==
    [value |-> sv_value, channel |-> sv_channel, namespace |-> store.namespace,
     storage_name |-> store.storage_name, nvs |-> store.nvs]

\* values of the events that a call appended to the channel ch
Sent(ch) == [i \in 1 .. Len(ch) - Len(sv_channel) |-> ch[Len(sv_channel) + i].value]

\* a call op(arg) on the SmartVar that panics in lock().unwrap(), the Mutex
\* being poisoned
PoisonedCall(op, arg) ==
    [NoSmartCall EXCEPT !.op = op, !.arg = arg, !.result = "poisoned"]

\* var.lock().unwrap().setup_storage(namespace, storage_name), as main calls it;
\* a panic unwinds through the guard and poisons the Mutex
SmartSetupStorage ==
    /\ Free(VarLock, held)
    /\ ~store.namespace
    /\ store.calls < MaxSets
    /\ \E outcome \in {"ok", "panic"} :
       \E r \in {setup_storage(SmartVarNow, outcome)} :
           IF store.poisoned
           THEN /\ store' = [store EXCEPT !.calls = @ + 1,
                                          !.call = PoisonedCall("setup_storage", 0)]
                /\ UNCHANGED <<sv_value, sv_channel>>
           ELSE /\ sv_value' = r.sv.value
                /\ sv_channel' = r.sv.channel
                /\ store' = [store EXCEPT !.namespace = r.sv.namespace,
                                          !.storage_name = r.sv.storage_name,
                                          !.poisoned = (r.result = "panic"),
                                          !.calls = @ + 1,
                                          !.call = [NoSmartCall EXCEPT !.op = "setup_storage",
                                                                       !.result = r.result],
                                          !.queued = @ \o Sent(r.sv.channel)]
    /\ UNCHANGED <<sv_handlers, delivered, held, pc, motor, endable>>
    /\ UNCHANGED <<busVars, eventVars, stateVars, threadVars, sampleVars,
                   loopVars, deviceVars>>

\* var.lock().unwrap().set(value), as the BLE write callbacks call it; a
\* panic inside set() unwinds through the guard and poisons the Mutex
SmartSet ==
    /\ Free(VarLock, held)
    /\ store.calls < MaxSets
    /\ \E value \in SetValues, outcome \in SaveOutcomes :
       \E r \in {set(SmartVarNow, value, outcome)} :
           IF store.poisoned
           THEN /\ store' = [store EXCEPT !.calls = @ + 1,
                                          !.call = PoisonedCall("set", value)]
                /\ UNCHANGED <<sv_value, sv_channel>>
           ELSE /\ sv_value' = r.sv.value
                /\ sv_channel' = r.sv.channel
                /\ store' = [store EXCEPT !.nvs = r.sv.nvs,
                                          !.poisoned = (r.result = "panic"),
                                          !.calls = @ + 1,
                                          !.call = [NoSmartCall EXCEPT !.op = "set",
                                                                       !.arg = value,
                                                                       !.result = r.result,
                                                                       !.saved = r.saved],
                                          !.queued = @ \o Sent(r.sv.channel)]
    /\ UNCHANGED <<sv_handlers, delivered, held, pc, motor, endable>>
    /\ UNCHANGED <<busVars, eventVars, stateVars, threadVars, sampleVars,
                   loopVars, deviceVars>>

\* var.lock().unwrap().get()
SmartGet ==
    /\ Free(VarLock, held)
    /\ store.call.op # "get"
    /\ store' = [store EXCEPT
                    !.call = IF store.poisoned THEN PoisonedCall("get", 0)
                             ELSE [NoSmartCall EXCEPT !.op = "get",
                                                      !.result = "ok",
                                                      !.val = get(SmartVarNow)]]
    /\ UNCHANGED <<smartVars, motor, endable>>
    /\ UNCHANGED <<busVars, eventVars, stateVars, threadVars, sampleVars,
                   loopVars, deviceVars>>

\* var.lock().unwrap().end(): impl Endable for SmartVar,
\* end_channel.0.send(true).unwrap(); the SmartVar holds the Receiver, the
\* send does not fail
SmartEnd ==
    /\ Free(VarLock, held)
    /\ store.ends < MaxVarEnds
    /\ store' = IF store.poisoned
                THEN [store EXCEPT !.ends = @ + 1, !.call = PoisonedCall("end", 0)]
                ELSE [store EXCEPT !.ends = @ + 1,
                                   !.end_channel = Append(@, TRUE),
                                   !.call = [NoSmartCall EXCEPT !.op = "end",
                                                                !.result = "ok"]]
    /\ UNCHANGED <<smartVars, motor, endable>>
    /\ UNCHANGED <<busVars, eventVars, stateVars, threadVars, sampleVars,
                   loopVars, deviceVars>>

\* The partition holds no entry for the value, or one from an earlier run.
InitStore ==
    /\ BusInit
    /\ EventInit
    /\ StateInit
    /\ ThreadInit
    /\ SampleInit
    /\ LoopInit
    /\ DeviceInit
    /\ SmartInit
    /\ \E stored \in {<<>>, <<7>>} : store = [NewStore EXCEPT !.nvs = stored]
    /\ MotorInit
    /\ EndableInit

NextStore ==
    \/ SmartSetupStorage
    \/ SmartSet
    \/ SmartGet
    \/ SmartEnd
    \/ BleAddHandler
    \/ WorkerLock
    \/ WorkerRecv
    \/ WorkerInvoke
    \/ WorkerReturn
    \/ WorkerUnlock

SpecStore == InitStore /\ [][NextStore]_vars

\* The worker is an OS thread of its own: its sleep ends, it gets the lock
\* that no other thread holds for ever, and each of its steps is taken.
SpecStoreFair ==
    /\ InitStore
    /\ [][NextStore]_vars
    /\ WF_vars(WorkerLock)
    /\ WF_vars(WorkerRecv)
    /\ WF_vars(WorkerInvoke)
    /\ WF_vars(WorkerReturn)
    /\ WF_vars(WorkerUnlock)

\* ----------------------------------------------------------------- the motor

\* motor.lock().unwrap().set_angle(angle)
SetAngle ==
    /\ motor.calls < MaxAngleCalls
    /\ \E angle \in Angles :
       \E r \in {set_angle(motor, angle)} :
           motor' = [motor EXCEPT !.angle = r.angle, !.channel = r.channel,
                                  !.calls = @ + 1, !.arg = angle, !.ok = r.ok]
    /\ UNCHANGED <<store, endable>>
    /\ UNCHANGED <<busVars, eventVars, stateVars, threadVars, sampleVars,
                   loopVars, deviceVars, smartVars>>

\* the motor thread at the top of an iteration: the stop check
MotorCheck ==
    /\ motor.thread = "running"
    /\ motor.pc = "check"
    /\ motor' = motor_check(motor)
    /\ UNCHANGED <<store, endable>>
    /\ UNCHANGED <<busVars, eventVars, stateVars, threadVars, sampleVars,
                   loopVars, deviceVars, smartVars>>

\* the motor thread past its stop check: the angle channel is read; for an
\* angle taken driver.get_max_duty() is max_duty and driver.set_duty(..)
\* succeeds or fails; then the sleep
MotorSend ==
    /\ motor.thread = "running"
    /\ motor.pc = "recv"
    /\ \E max_duty \in MaxDuties, duty_ok \in BOOLEAN :
           motor' = motor_send(motor, max_duty, duty_ok)
    /\ UNCHANGED <<store, endable>>
    /\ UNCHANGED <<busVars, eventVars, stateVars, threadVars, sampleVars,
                   loopVars, deviceVars, smartVars>>

\* motor.lock().unwrap().end(): impl Endable for Motor, end_tx.send(true),
\* an Err of the send only logged; the Motor holds the Receiver
MotorEnd ==
    /\ motor.ends < MaxEnds
    /\ motor' = [motor EXCEPT !.end_channel = Append(@, TRUE), !.ends = @ + 1]
    /\ UNCHANGED <<store, endable>>
    /\ UNCHANGED <<busVars, eventVars, stateVars, threadVars, sampleVars,
                   loopVars, deviceVars, smartVars>>

NextMotor ==
    \/ SetAngle
    \/ MotorCheck
    \/ MotorSend
    \/ MotorEnd

SpecMotor == Init /\ [][NextMotor]_vars

\* The motor thread with one angle waiting, any angle set_angle accepts.
InitPulse ==
    /\ BusInit
    /\ EventInit
    /\ StateInit
    /\ ThreadInit
    /\ SampleInit
    /\ LoopInit
    /\ DeviceInit
    /\ SmartInit
    /\ StoreInit
    /\ \E angle \in 0 .. 180 :
           motor = [NewMotor EXCEPT !.angle = angle, !.channel = <<angle>>,
                                    !.calls = 1, !.arg = angle]
    /\ EndableInit

NextPulse ==
    \/ MotorCheck
    \/ MotorSend
    \/ MotorEnd

SpecPulse == InitPulse /\ [][NextPulse]_vars

\* ---------------------------------------------------------- the end handler

\* endable.add(object)
Add ==
    /\ endable.pc = "idle"
    /\ Len(endable.objects) < MaxObjects
    /\ endable.calls < MaxEndAlls
    /\ \E object \in Endables :
           endable' = [endable EXCEPT !.objects = add(@, object)]
    /\ UNCHANGED <<store, motor>>
    /\ UNCHANGED <<busVars, eventVars, stateVars, threadVars, sampleVars,
                   loopVars, deviceVars, smartVars>>

\* endable.end_all() is called, as halt_system calls it
EndAllCall ==
    /\ endable.pc = "idle"
    /\ endable.calls < MaxEndAlls
    /\ endable' = [endable EXCEPT !.calls = @ + 1, !.pre = endable.objects,
                                  !.mark = Len(endable.ended), !.pc = "looping"]
    /\ UNCHANGED <<store, motor>>
    /\ UNCHANGED <<busVars, eventVars, stateVars, threadVars, sampleVars,
                   loopVars, deviceVars, smartVars>>

\* object.lock().unwrap().end() on the popped object: its Mutex is taken,
\* unwrap() panicking if it is poisoned, and its end() sends true on its
\* end channel
EndObject(object, rest) ==
    /\ object = "smartvar" => Free(VarLock, held)
    /\ IF object = "smartvar" /\ store.poisoned
       THEN /\ endable' = [endable EXCEPT !.objects = rest, !.pc = "panicked"]
            /\ UNCHANGED <<store, motor, channel, ends>>
       ELSE /\ endable' = [endable EXCEPT !.objects = rest,
                                          !.ended = Append(@, object)]
            /\ IF object = "smartvar"
               THEN store' = [store EXCEPT !.end_channel = Append(@, TRUE)]
               ELSE UNCHANGED store
            /\ IF object = "motor"
               THEN motor' = [motor EXCEPT !.end_channel = Append(@, TRUE)]
               ELSE UNCHANGED motor
            /\ IF object = "mlx90393"
               THEN channel' = end(channel) /\ ends' = ends + 1
               ELSE UNCHANGED <<channel, ends>>

\* end_all, one iteration of its loop: objects.pop(); on Some(object) the
\* object is locked and ended, on None the loop is left and end_all returns
EndAllNext ==
    /\ endable.pc = "looping"
    /\ \E p \in {pop(endable.objects)} :
           IF p.some
           THEN EndObject(p.object, p.objects)
           ELSE /\ endable' = [endable EXCEPT !.pc = "idle"]
                /\ UNCHANGED <<store, motor, channel, ends>>
    /\ UNCHANGED <<thread, handle>>
    /\ UNCHANGED <<busVars, eventVars, stateVars, sampleVars,
                   loopVars, deviceVars, smartVars>>

\* end_all with the threads of the objects running: the sampling thread, the
\* motor thread and the worker of the SmartVar, whose storage is set up by a
\* thread other than the one that calls end_all.
NextEndable ==
    \/ Add
    \/ EndAllCall
    \/ EndAllNext
    \/ SmartSetupStorage
    \/ SensorThreadCheck
    \/ SensorThreadSleep
    \/ MotorCheck
    \/ MotorSend
    \/ WorkerLock
    \/ WorkerRecv
    \/ WorkerUnlock

SpecEndable == Init /\ [][NextEndable]_vars

\* =================================================================== claims

\* bit k of v, and the w-bit field of v that starts at bit lo, by arithmetic
BitOf(v, k) == (v \div (2 ^ k)) % 2

FieldOf(v, lo, w) == (v \div (2 ^ lo)) % (2 ^ w)

\* v with that field replaced by tag, every other bit kept
WithField(v, lo, w, tag) == v - FieldOf(v, lo, w) * (2 ^ lo) + tag * (2 ^ lo)

\* the 16-bit value of two bytes, big-endian, and its two's-complement reading
WordOf(hi, lo) == hi * 256 + lo

SignedOf(w) == IF w >= 32768 THEN w - 65536 ELSE w

\* the first transaction of the last call was answered, with this status byte
Answered == last.bus # <<>> /\ last.bus[1].io = "ok"

Status1 == last.bus[1].rx[1]

StatusOps ==
    {"read_register", "write_register", "exit_mode", "reset",
     "start_single_measurement", "start_burst_measurement",
     "start_wakeup_measurement"}

\* C1: for read_register, write_register, exit_mode, reset and the three
\* mode-start commands, a response whose status byte has bit 0x10 set makes the
\* call fail with the error that carries that status byte, whatever the other
\* status bits and the payload are; no value is returned.
C1_ErrorBitFails ==
    (last.op \in StatusOps /\ Answered /\ BitOf(Status1, 4) = 1)
        => /\ ~last.ok
           /\ last.val = <<>>
           /\ last.err = [kind |-> "status", fn |-> last.op, status |-> Status1]

\* read_register was answered with the error bit among other status bits and a
\* non-zero payload, and failed.
C1_Witness ==
    /\ last.op = "read_register"
    /\ Answered
    /\ Status1 = 255
    /\ WordOf(last.bus[1].rx[2], last.bus[1].rx[3]) = 65535
    /\ ~last.ok

\* C2: a mode-start command succeeds only if its own acknowledgement bit is
\* set in the status byte (0x20 single, 0x80 burst, 0x40 wakeup) and the error
\* bit is clear; without its own bit it fails though the error bit is clear
\* and another mode's bit is set.
C2_ModeAckRequired ==
    /\ (last.op = "start_single_measurement" /\ Answered)
          => (last.ok <=> (BitOf(Status1, 5) = 1 /\ BitOf(Status1, 4) = 0))
    /\ (last.op = "start_burst_measurement" /\ Answered)
          => (last.ok <=> (BitOf(Status1, 7) = 1 /\ BitOf(Status1, 4) = 0))
    /\ (last.op = "start_wakeup_measurement" /\ Answered)
          => (last.ok <=> (BitOf(Status1, 6) = 1 /\ BitOf(Status1, 4) = 0))
    /\ (last.op \in {"start_single_measurement", "start_burst_measurement",
                     "start_wakeup_measurement"} /\ ~Answered)
          => ~last.ok

\* start_wakeup_measurement was answered 0xA0: error bit clear, the single and
\* burst bits set, its own bit 0x40 absent; it failed.
C2_Witness ==
    /\ last.op = "start_wakeup_measurement"
    /\ Answered
    /\ Status1 = 160
    /\ ~last.ok
    /\ last.err.kind = "status"

\* the last call is a read_measurement whose transaction was answered
Measured == last.op = "read_measurement" /\ Answered

\* the raw reading of axis k (1, 2, 3) in the answer: bytes 3-4, 5-6, 7-8 of
\* the response, big-endian two's complement
RawRead(k) == SignedOf(WordOf(last.bus[1].rx[2 * k + 2], last.bus[1].rx[2 * k + 3]))

\* the resolution of axis k held in the cache before the call
CachedRes(k) == FieldOf(last.pre.current_resolution, 2 * k + 3, 2)

\* C3: with the gain and the resolutions cached, a successful read_measurement
\* returns, for every (resolution, gain) pair of the table and every raw
\* reading, raw_x * table[res_x][gain].xy, raw_y * table[res_y][gain].xy and
\* raw_z * table[res_z][gain].z: each axis with its own cached resolution, all
\* with the one cached gain, and without reading any register.
C3_DecodeByTable ==
    (Measured /\ last.ok) =>
        LET g == last.pre.current_gain
        IN  /\ last.val = << RawRead(1) * GAIN_RES_CONVERSION[CachedRes(1) + 1][g + 1][1],
                             RawRead(2) * GAIN_RES_CONVERSION[CachedRes(2) + 1][g + 1][1],
                             RawRead(3) * GAIN_RES_CONVERSION[CachedRes(3) + 1][g + 1][2] >>
            /\ Len(last.bus) = 1

\* a decoded reading whose three axes have three different cached resolutions
\* and non-zero raw values
C3_Witness ==
    /\ Measured
    /\ last.ok
    /\ CachedRes(1) # CachedRes(2)
    /\ CachedRes(2) # CachedRes(3)
    /\ CachedRes(1) # CachedRes(3)
    /\ \A k \in 1 .. 3 : RawRead(k) # 0 /\ last.val[k] # 0

\* the scenario: gain GAIN1X, resolution RES16 on all axes, and the response
\* [0x00,0,0,0x03,0xE8,0xFE,0x0C,0x00,0x64]
Scenario ==
    /\ Measured
    /\ last.pre.current_gain = GAIN1X
    /\ \A k \in 1 .. 3 : CachedRes(k) = RES16
    /\ last.bus[1].rx = <<0, 0, 0, 3, 232, 254, 12, 0, 100>>

\* C4 as stated: the scenario decodes to x = 1202.0, y = -601.0, z = 193.6,
\* the table entry for (RES16, GAIN1X) being (1.202, 1.936).
C4_Original ==
    Scenario => (last.ok /\ last.val = <<1202000, -601000, 193600>>)

\* C4 amended: the scenario decodes to x = 150.0, y = -75.0, z = 24.2, the
\* table entry for (RES16, GAIN1X) being (0.150, 0.242).
C4_Scenario ==
    Scenario => /\ last.ok
                /\ last.val = <<150000, -75000, 24200>>
                /\ RawRead(1) = 1000 /\ RawRead(2) = -500 /\ RawRead(3) = 100

C4_Witness == Scenario /\ last.ok

\* byte values at the edges of the signed and unsigned ranges
EdgeBytes == {0, 1, 12, 100, 127, 128, 232, 254, 255}

\* C5: read_measurement sends the single byte RM|ALL = 0x4E and reads 9 bytes;
\* the status byte and the two temperature bytes do not enter the values;
\* bytes 3-4, 5-6, 7-8 are read as big-endian two's-complement 16-bit X, Y, Z:
\* the raw value of (hi, lo) is the signed value of hi*256+lo, within
\* -32768..32767.
C5_WireAndSign ==
    /\ last.op = "read_measurement"
          => /\ last.bus # <<>>
             /\ last.bus[1].tx = <<78>>
             /\ Answered => Len(last.bus[1].rx) = 9
    /\ (Measured /\ last.ok)
          => \A k \in 1 .. 3 :
                last.val[k] = RawRead(k) * Scale(CachedRes(k), last.pre.current_gain,
                                                 IF k = 3 THEN 2 ELSE 1)
    /\ Measured
          => \A hi \in EdgeBytes, lo \in EdgeBytes :
                /\ RawAxis(hi, lo) = SignedOf(WordOf(hi, lo))
                /\ RawAxis(hi, lo) \in -32768 .. 32767

\* a reading whose Y bytes are 0xFE, 0x0C decodes Y from -500, with non-zero
\* temperature bytes in the response
C5_Witness ==
    /\ Measured
    /\ last.ok
    /\ last.bus[1].rx[6] = 254 /\ last.bus[1].rx[7] = 12
    /\ last.bus[1].rx[2] # 0
    /\ last.val[2] = (-500) * Scale(CachedRes(2), last.pre.current_gain, 1)

\* ---- configuration setters and getters

\* a transaction that was answered without the error bit
TxOk(e) == e.io = "ok" /\ BitOf(e.rx[1], 4) = 0

\* the register value in the answer to a register read
ReadValue(e) == WordOf(e.rx[2], e.rx[3])

CacheSetters == {"set_gain", "set_resolution", "set_filter", "set_oversampling"}

Setters == CacheSetters \cup {"set_trigger_interval", "set_wakeup_comparator"}

Getters == {"get_gain", "get_resolution", "get_filter", "get_oversampling"}

\* the last call names Axis::ALL
AxisAll == last.op \in {"set_resolution", "get_resolution"} /\ last.arg[1] = AXIS_ALL

\* the register of the last setter or getter call
RegOfCall ==
    IF last.op \in {"set_gain", "get_gain"} THEN CONF1
    ELSE IF last.op \in {"set_trigger_interval", "set_wakeup_comparator"} THEN CONF2
    ELSE CONF3

\* the lowest bit of the field of the last setter or getter call
LowBitOfCall ==
    IF last.op \in {"set_gain", "get_gain"} THEN 4
    ELSE IF last.op \in {"set_resolution", "get_resolution"}
    THEN (IF last.arg[1] = AXIS_X THEN 5 ELSE IF last.arg[1] = AXIS_Y THEN 7 ELSE 9)
    ELSE IF last.op \in {"set_filter", "get_filter"} THEN 2
    ELSE IF last.op \in {"set_oversampling", "get_oversampling"} THEN 0
    ELSE IF last.op = "set_wakeup_comparator" THEN 4
    ELSE 15

\* the width of that field
WidthOfCall ==
    IF last.op \in {"set_gain", "get_gain", "set_filter", "get_filter"} THEN 3
    ELSE IF last.op \in {"set_trigger_interval", "set_wakeup_comparator"} THEN 1
    ELSE 2

\* the tag the last setter call asks for
TagOfCall ==
    IF last.op \in {"set_trigger_interval", "set_wakeup_comparator"}
    THEN (IF last.arg[1] THEN 1 ELSE 0)
    ELSE IF last.op = "set_resolution" THEN last.arg[2]
    ELSE last.arg[1]

\* the cache entry the last setter or getter call is about, in cache c
EntryOfCall(c) ==
    IF last.op \in {"set_gain", "get_gain"} THEN c.current_gain
    ELSE IF last.op \in {"set_resolution", "get_resolution"} THEN c.current_resolution
    ELSE IF last.op \in {"set_filter", "get_filter"} THEN c.current_filter
    ELSE c.current_oversampling

\* C6: every configuration setter is a read-modify-write of its own register
\* that changes only its own field: it reads the register, and the value it
\* writes back to that same register is the value read with the field replaced
\* by the new tag (gain bits 4-6 of CONF1; X/Y/Z resolution bits 5-6/7-8/9-10,
\* filter bits 2-4 and oversampling bits 0-1 of CONF3; wakeup comparator bit
\* 0x10 and trigger interval bit 0x8000 of CONF2); it writes nothing else.
C6_ReadModifyWrite ==
    (last.op \in Setters /\ ~AxisAll) =>
        /\ Len(last.bus) \in 1 .. 2
        /\ last.bus[1].tx = <<80, RegOfCall * 4>>
        /\ Len(last.bus) = 2 =>
              LET v == WithField(ReadValue(last.bus[1]), LowBitOfCall, WidthOfCall,
                                 TagOfCall)
              IN  last.bus[2].tx = <<96, v \div 256, v % 256, RegOfCall * 4>>
        /\ TxOk(last.bus[1]) => Len(last.bus) = 2

\* set_resolution(Y, RES17) read 0xFFFF and wrote 0xFEFF: bits 7-8 replaced,
\* every other bit kept
C6_Witness ==
    /\ last.op = "set_resolution"
    /\ last.arg = <<AXIS_Y, 1>>
    /\ last.ok
    /\ ReadValue(last.bus[1]) = 65535
    /\ last.bus[2].tx = <<96, 254, 255, 8>>

\* C7: set_gain, set_resolution, set_filter and set_oversampling change the
\* cache only when both the register read and the register write succeed, and
\* then only their own entry; if the read fails no write is issued; if either
\* fails the call returns an error and the whole cache is as before the call.
C7_CacheOnlyOnSuccess ==
    last.op \in CacheSetters =>
        /\ Len(last.bus) \in 1 .. 2
        /\ last.bus[1].tx[1] = 80
        /\ ~TxOk(last.bus[1]) => (Len(last.bus) = 1 /\ ~last.ok)
        /\ Len(last.bus) = 2 =>
              /\ last.bus[2].tx[1] = 96
              /\ ~TxOk(last.bus[2]) => ~last.ok
        /\ ~last.ok => internal = last.pre
        /\ internal # last.pre =>
              /\ last.ok
              /\ Len(last.bus) = 2
              /\ TxOk(last.bus[1])
              /\ TxOk(last.bus[2])
        /\ last.ok =>
              /\ internal.current_gain =
                    IF last.op = "set_gain" THEN last.arg[1] ELSE last.pre.current_gain
              /\ internal.current_resolution =
                    IF last.op = "set_resolution"
                    THEN WordOf(last.bus[2].tx[2], last.bus[2].tx[3])
                    ELSE last.pre.current_resolution
              /\ internal.current_filter =
                    IF last.op = "set_filter" THEN last.arg[1] ELSE last.pre.current_filter
              /\ internal.current_oversampling =
                    IF last.op = "set_oversampling" THEN last.arg[1]
                    ELSE last.pre.current_oversampling

\* set_filter on a driver that has a gain cached: the read succeeded, the write
\* was answered with the error bit, the call failed and the cache is unchanged
C7_Witness ==
    /\ last.op = "set_filter"
    /\ last.pre.current_gain # None
    /\ Len(last.bus) = 2
    /\ TxOk(last.bus[1])
    /\ last.bus[2].io = "ok"
    /\ ~TxOk(last.bus[2])
    /\ ~last.ok
    /\ internal = last.pre

\* C8: after a successful set_gain(G), get_gain() returns G without any bus
\* transaction and leaves the cache as it is, so any number of calls do,
\* whatever the device would answer to a read; likewise get_resolution(axis)
\* after set_resolution(axis, r), get_filter after set_filter and
\* get_oversampling after set_oversampling.  Every getter call that finds its
\* entry cached returns the cached value with no transaction.
C8_CacheHit ==
    /\ (last.op = "set_gain" /\ last.ok) =>
          \A resp \in RegReadResps :
              /\ get_gain(internal, <<resp>>) = Ok(<<last.arg[1]>>, <<>>, internal)
              /\ get_gain(get_gain(internal, <<resp>>).cache, <<resp>>)
                    = Ok(<<last.arg[1]>>, <<>>, internal)
    /\ (last.op = "set_resolution" /\ last.ok) =>
          \A resp \in RegReadResps :
              /\ get_resolution(last.arg[1], internal, <<resp>>)
                    = Ok(<<last.arg[2]>>, <<>>, internal)
              /\ get_resolution(last.arg[1],
                                get_resolution(last.arg[1], internal, <<resp>>).cache,
                                <<resp>>)
                    = Ok(<<last.arg[2]>>, <<>>, internal)
    /\ (last.op = "set_filter" /\ last.ok) =>
          \A resp \in RegReadResps :
              /\ get_filter(internal, <<resp>>) = Ok(<<last.arg[1]>>, <<>>, internal)
              /\ get_filter(get_filter(internal, <<resp>>).cache, <<resp>>)
                    = Ok(<<last.arg[1]>>, <<>>, internal)
    /\ (last.op = "set_oversampling" /\ last.ok) =>
          \A resp \in RegReadResps :
              /\ get_oversampling(internal, <<resp>>) = Ok(<<last.arg[1]>>, <<>>, internal)
              /\ get_oversampling(get_oversampling(internal, <<resp>>).cache, <<resp>>)
                    = Ok(<<last.arg[1]>>, <<>>, internal)
    /\ (last.op \in Getters /\ ~AxisAll /\ EntryOfCall(last.pre) # None) =>
          /\ last.ok
          /\ last.bus = <<>>
          /\ internal = last.pre
          /\ last.val = IF last.op = "get_resolution"
                        THEN <<FieldOf(last.pre.current_resolution, LowBitOfCall, 2)>>
                        ELSE <<EntryOfCall(last.pre)>>

\* get_gain on a driver whose gain was set to GAIN1_67X (5): it returned 5
\* with no transaction
C8_Witness ==
    /\ last.op = "get_gain"
    /\ last.pre.current_gain = 5
    /\ last.ok
    /\ last.val = <<5>>
    /\ last.bus = <<>>

\* C9: a getter whose cache entry is absent performs exactly one register read
\* of its register, returns the decoded field when the read succeeds (an error
\* when it fails) and leaves the entry absent; no getter ever changes the cache.
C9_GetterReadsThrough ==
    last.op \in Getters =>
        /\ internal = last.pre
        /\ EntryOfCall(last.pre) = None =>
              /\ Len(last.bus) = 1
              /\ last.bus[1].tx = <<80, RegOfCall * 4>>
              /\ ~TxOk(last.bus[1]) => ~last.ok
              /\ (TxOk(last.bus[1]) /\ ~AxisAll) =>
                    /\ last.ok
                    /\ last.val = <<FieldOf(ReadValue(last.bus[1]), LowBitOfCall,
                                            WidthOfCall)>>
              /\ EntryOfCall(internal) = None

\* get_filter with no filter cached read CONF3 = 0xA72D, returned FILTER3 and
\* cached nothing
C9_Witness ==
    /\ last.op = "get_filter"
    /\ last.pre.current_filter = None
    /\ last.ok
    /\ ReadValue(last.bus[1]) = Mixed
    /\ last.val = <<3>>
    /\ internal.current_filter = None

\* C10: set_resolution(Axis::ALL, r) and get_resolution(Axis::ALL) never
\* return Ok; set_resolution(ALL, r) issues no register write and leaves the
\* cache unchanged, for every r and every answer of the device.
C10_AxisAllRejected ==
    AxisAll =>
        /\ ~last.ok
        /\ internal = last.pre
        /\ \A i \in 1 .. Len(last.bus) : last.bus[i].tx[1] # 96
        /\ (last.bus = <<>> \/ TxOk(last.bus[Len(last.bus)])) => last.err.kind = "axis"

\* set_resolution(ALL, RES18) on a driver with a cached resolution: the
\* register read succeeded and the call failed with the axis error
C10_Witness ==
    /\ last.op = "set_resolution"
    /\ last.arg = <<AXIS_ALL, 2>>
    /\ last.pre.current_resolution # None
    /\ Len(last.bus) = 1
    /\ TxOk(last.bus[1])
    /\ ~last.ok
    /\ last.err.kind = "axis"

\* ------------------------------------------------------------------ C11, C12

\* the invocations of a send_event of event that goes through all of hs
AllInvoked(hs, event) == [i \in 1 .. Len(hs) |-> <<hs[i], event>>]

\* p is an initial part of q
IsPrefix(p, q) ==
    /\ Len(p) <= Len(q)
    /\ \A i \in 1 .. Len(p) : p[i] = q[i]

\* how often subscriber h was invoked by the last send_event
TimesInvoked(h) ==
    Cardinality({j \in 1 .. Len(sent.calls) : sent.calls[j][1] = h})

\* C11: when send_event returns, it has invoked every subscriber registered
\* at the call exactly once, with the event sent, in the order the
\* subscribers were added; whatever happens, the invocations it has made are
\* an initial part of that order.  Every step keeps the subscribers already
\* registered at their positions: add_handler only appends.
C11_DispatchInOrder ==
    /\ [](/\ IsPrefix(sent.calls, AllInvoked(sent.pre, sent.event))
          /\ sent.ok =>
               /\ sent.calls = AllInvoked(sent.pre, sent.event)
               /\ \A h \in Range(sent.pre) : TimesInvoked(h) = 1)
    /\ [][IsPrefix(handlers, handlers')]_vars

\* a returned send_event to two subscribers added in another order than
\* that of their identities, and a third subscriber added after it
C11_Witness ==
    /\ sent # NoSend
    /\ sent.ok
    /\ Len(sent.pre) = 2
    /\ sent.pre[1] > sent.pre[2]
    /\ Len(sent.calls) = 2
    /\ Len(handlers) = 3

\* C12: a subscriber that panics is contained: every send_event, whatever
\* its subscribers do, invokes all subscribers registered, including those
\* after a panicking one and in later events, and the program keeps running.
C12_FailureContained ==
    sent # NoSend =>
        /\ running
        /\ \A i \in 1 .. Len(sent.pre) :
               \E j \in 1 .. Len(sent.calls) :
                   sent.calls[j] = <<sent.pre[i], sent.event>>

\* the first of three subscribers panicked and the program went on
C12_Witness ==
    /\ ~sent.ok
    /\ running
    /\ Len(sent.pre) = 3
    /\ Len(sent.calls) = 1
    /\ sent.pre[1] \in poisoned

\* -------------------------------------------------------------- C13, C14, C15

\* C13: the state is Idle after construction, Calibrating after calibrate
\* has set it and until its timeout has elapsed, Idle when calibrate returns,
\* Measuring after start(), and Idle after end() whatever it was before; a
\* step changes the state only if it is one of these calls.
C13_StateMachine ==
    /\ [](/\ called = "new" => sensor_state = "Idle"
          /\ called = "calibrate" => sensor_state = "Calibrating"
          /\ called = "calibrated" => sensor_state = "Idle"
          /\ called = "start" => sensor_state = "Measuring"
          /\ called = "end" => sensor_state = "Idle")
    /\ [][sensor_state' # sensor_state =>
              /\ called' # called
              /\ called' \in {"calibrate", "calibrated", "start", "end"}]_vars

\* end() has been called while Measuring and the state is still Measuring
C13_Witness ==
    /\ called = "end"
    /\ sensor_state = "Measuring"
    /\ ends = 1

\* C14: once end() has been called the sampling thread eventually terminates,
\* whatever the sensor state; it terminates only at the top of an iteration,
\* on reading a true stop signal; until then every signal sent is still in
\* the channel: none is lost.
C14_StopSignalDelivered ==
    /\ [](thread # "ended" =>
              /\ Len(channel) = ends
              /\ \A i \in 1 .. Len(channel) : channel[i] = TRUE)
    /\ [][thread' = "ended" /\ thread # "ended" =>
              /\ thread = "check"
              /\ channel # <<>>
              /\ Head(channel) = TRUE]_vars
    /\ (ends > 0) ~> (thread = "ended")

\* the thread has terminated after an end() called during a calibration
C14_Witness ==
    /\ thread = "ended"
    /\ ends = 1
    /\ channel = <<>>
    /\ sensor_state = "Calibrating"

\* C15: the handle is dropped only after the sampling thread has been
\* signalled and has terminated.
C15_TeardownOrder ==
    handle = "dropped" => (ends > 0 /\ thread = "ended")

\* the handle is dropped, the thread runs and no signal was ever sent
C15_Witness ==
    /\ handle = "dropped"
    /\ thread = "sleep"
    /\ ends = 0

\* -------------------------------------------------------------- C16, C17, C18

MaxNames == {"max_x", "max_y", "max_z"}

MinNames == {"min_x", "min_y", "min_z"}

\* the greater and the lesser of two values
Greater(a, b) == IF F32Less(b, a) THEN a ELSE b

Lesser(a, b) == IF F32Less(a, b) THEN a ELSE b

\* the bound called name differs before and after iteration i
BoundChanged(i, name) == fed[i].after[name] # fed[i].before[name]

\* iteration i changed at least one of the six bounds
AnyBoundChanged(i) == \E name \in MaxNames \cup MinNames : BoundChanged(i, name)

\* the bound called name of axis k after sample i is what it was before or
\* what that axis of the sample widens it to
KeptOrWidened(i, name, k) ==
    LET e == fed[i]
        widened == IF name \in MaxNames THEN Greater(e.before[name], e.avg[k])
                   ELSE Lesser(e.before[name], e.avg[k])
    IN  /\ e.after[name] \in {e.before[name], widened}
        /\ e.ok => e.after[name] = widened

\* C16: no step lowers a max bound or raises a min bound, a new calibration
\* included; the bounds of an axis after a sample depend on that axis of the
\* sample alone: max is the greater of the old max and the sample, min the
\* lesser of the old min and the sample, and a run of the engine that a
\* panic cut short has left each bound as it was or so widened.
C16_BoundsOnlyWiden ==
    /\ [][/\ \A name \in MaxNames :
                ~F32Less(parameters'[name].value, parameters[name].value)
          /\ \A name \in MinNames :
                ~F32Less(parameters[name].value, parameters'[name].value)]_vars
    /\ [](\A i \in 1 .. Len(fed) :
            /\ KeptOrWidened(i, "max_x", 1)
            /\ KeptOrWidened(i, "min_x", 1)
            /\ KeptOrWidened(i, "max_y", 2)
            /\ KeptOrWidened(i, "min_y", 2)
            /\ KeptOrWidened(i, "max_z", 3)
            /\ KeptOrWidened(i, "min_z", 3))

\* three samples in two calibrations: the second sample moved min_x alone,
\* the third max_y alone, and the earlier bounds are kept
C16_Witness ==
    /\ Len(fed) = 3
    /\ sensor_state = "Idle"
    /\ fed[1].avg = V3(1, 2, 3)
    /\ fed[2].avg = V3(0, 2, 3)
    /\ fed[3].avg = V3(1, 7, 3)
    /\ Bounds(parameters) =
           [max_x |-> F32(1), min_x |-> F32(0), max_y |-> F32(7),
            min_y |-> F32(2), max_z |-> F32(3), min_z |-> F32(3)]

RECURSIVE CalibratedExpected(_)
\* one CalibratedChanged for each of the first n iterations that changed a
\* bound, carrying the six bounds after that iteration
CalibratedExpected(n) ==
    IF n = 0 THEN <<>>
    ELSE CalibratedExpected(n - 1) \o
         (IF AnyBoundChanged(n)
          THEN << <<"CalibratedChanged",
                    <<fed[n].after.max_x, fed[n].after.min_x>>,
                    <<fed[n].after.max_y, fed[n].after.min_y>>,
                    <<fed[n].after.max_z, fed[n].after.min_z>> >> >>
          ELSE <<>>)

IsCalibratedChanged(e) == e[1] = "CalibratedChanged"

\* the CalibratedChanged events emitted so far, oldest first
CalibratedEmitted == SelectSeq(emitted, IsCalibratedChanged)

\* C17: the CalibratedChanged events emitted are, in order, one for each
\* sample that changed at least one bound, each carrying the six bounds as
\* they are after its sample; a sample that changes no bound emits none.
C17_CalibratedChangedOncePerChange ==
    /\ CalibratedEmitted = CalibratedExpected(Len(fed))
    /\ \A i \in 1 .. Len(fed) :
           Len(SelectSeq(fed[i].events, IsCalibratedChanged)) =
               IF AnyBoundChanged(i) THEN 1 ELSE 0

\* the second sample raised max_x, whose set() panicked in save(): the bound
\* is changed and saved nowhere, its worker has delivered what was queued
\* before, the sampling thread has ended and the sample has no
\* CalibratedChanged
C17_Witness ==
    /\ Len(fed) = 2
    /\ fed[1].ok
    /\ ~fed[2].ok
    /\ BoundChanged(2, "max_x")
    /\ fed[2].events = <<>>
    /\ Len(CalibratedEmitted) = 1
    /\ parameters.max_x.poisoned
    /\ parameters.max_x.nvs = <<fed[1].after.max_x>>
    /\ parameters.min_x.delivered = <<F32(F32_MAX), fed[1].after.min_x>>
    /\ thread = "panicked"

\* the samples of the scenario
ScenarioSamples == <<V3(1, 2, 3), V3(5, 1, 0), V3(-2, 4, 6)>>

\* the samples fed so far are the first of (1,2,3), (5,1,0), (-2,4,6), fed
\* from the initial bounds
ScenarioBegun ==
    /\ Len(fed) \in 1 .. 3
    /\ fed[1].before = Bounds(InitialParameters)
    /\ \A i \in 1 .. Len(fed) : fed[i].avg = ScenarioSamples[i]

\* the samples (1,2,3), (5,1,0), (-2,4,6) were fed from the initial bounds
CalibrationScenario == ScenarioBegun /\ Len(fed) = 3

\* the bounds max = (5,4,6), min = (-2,1,0)
ScenarioBounds ==
    [max_x |-> F32(5), max_y |-> F32(4), max_z |-> F32(6),
     min_x |-> F32(-2), min_y |-> F32(1), min_z |-> F32(0)]

\* C18: from the initial bounds the samples (1,2,3), (5,1,0), (-2,4,6) are
\* each taken in by the engine and give the bounds max = (5,4,6),
\* min = (-2,1,0) and exactly two CalibratedChanged events.
C18_Scenario ==
    /\ ScenarioBegun => \A i \in 1 .. Len(fed) : fed[i].ok
    /\ CalibrationScenario =>
           /\ Bounds(parameters) = ScenarioBounds
           /\ Len(CalibratedEmitted) = 2

\* the scenario ended by a panic at its second sample, in the set() of
\* max_x: max_x is 5 and min_y still 2, the sampling thread has ended, one
\* CalibratedChanged was emitted
C18_Witness ==
    /\ ScenarioBegun
    /\ Len(fed) = 2
    /\ ~fed[2].ok
    /\ thread = "panicked"
    /\ parameters.max_x.value = F32(5)
    /\ parameters.min_y.value = F32(2)
    /\ Len(CalibratedEmitted) = 1

\* the scenario fed to its end, no set() panicking: the bounds are
\* max = (5,4,6), min = (-2,1,0) and three CalibratedChanged events were
\* emitted, the first sample having moved all six bounds off their extremes
C18_ThreeEvents ==
    /\ CalibrationScenario
    /\ Bounds(parameters) = ScenarioBounds
    /\ Len(CalibratedEmitted) = 3

\* ------------------------------------------------------------------ C19, C20

\* the shorter arc between headings a and b, stated without the estimator
ShorterArc(a, b) ==
    LET d == IF a >= b THEN a - b ELSE b - a
    IN  IF d <= 180 THEN d ELSE 360 - d

\* C19: for all headings a, b in 0..359 the distance the estimator computes
\* between a new heading a and the last emitted heading b is |a-b| if that
\* is at most 180 and 360-|a-b| otherwise; it is the same in both
\* directions and within 0..180; distance(359,1) = 2, distance(1,359) = 2
\* and distance(10,190) = 180.
C19_ShorterArcDistance ==
    \A i \in 1 .. Len(fed) :
        LET a == fed[i].heading
            b == fed[i].last
            d == fed[i].diff
        IN  /\ d = ShorterArc(a, b)
            /\ d = heading_distance(b, a)
            /\ d \in 0 .. 180
            /\ (a = 359 /\ b = 1) => d = 2
            /\ (a = 1 /\ b = 359) => d = 2
            /\ (a = 10 /\ b = 190) => d = 180

\* the distance between 359 and a last emitted heading of 1 was computed
C19_Witness ==
    /\ Len(fed) = 1
    /\ fed[1].heading = 359
    /\ fed[1].last = 1
    /\ fed[1].diff = 2

IsHeadingChanged(e) == e[1] = "HeadingChanged"

\* the HeadingChanged events emitted so far, oldest first
HeadingEmitted == SelectSeq(emitted, IsHeadingChanged)

\* the last emitted heading after the first n iterations
LastAfter(n) ==
    IF n = 0 THEN 0
    ELSE IF fed[n].events # <<>> THEN fed[n].heading ELSE fed[n].last

\* the first n headings fed are those of hs
FedHeadings(hs) ==
    /\ Len(fed) >= Len(hs)
    /\ \A i \in 1 .. Len(hs) : fed[i].heading = hs[i]

\* C20: the last emitted heading is 0 at first; an iteration with heading h
\* emits HeadingChanged(h) exactly when the shorter arc between h and the
\* last emitted heading is greater than 2, and emits nothing of the kind
\* otherwise; the last emitted heading changes only at such an emission, to
\* h; so two headings emitted one after the other are more than 2 apart;
\* the headings 10, 11, 9, 10 emit once, for the first 10, and a following
\* 50 emits again.
C20_HeadingHysteresis ==
    /\ \A i \in 1 .. Len(fed) :
           /\ fed[i].last = LastAfter(i - 1)
           /\ fed[i].events =
                  IF ShorterArc(fed[i].heading, fed[i].last) > 2
                  THEN << <<"HeadingChanged", fed[i].heading>> >>
                  ELSE <<>>
    /\ last_heading = LastAfter(Len(fed))
    /\ \A j \in 1 .. Len(HeadingEmitted) :
           ShorterArc(HeadingEmitted[j][2],
                      IF j = 1 THEN 0 ELSE HeadingEmitted[j - 1][2]) > 2
    /\ FedHeadings(<<10, 11, 9, 10>>) =>
           /\ fed[1].events = << <<"HeadingChanged", 10>> >>
           /\ \A i \in 2 .. 4 : fed[i].events = <<>>
    /\ FedHeadings(<<10, 11, 9, 10, 50>>) =>
           /\ fed[5].events = << <<"HeadingChanged", 50>> >>
           /\ Len(fed) = 5 =>
                  HeadingEmitted =
                      << <<"HeadingChanged", 10>>, <<"HeadingChanged", 50>> >>

\* the headings 10, 11, 9, 10, 50 have been fed
C20_Witness ==
    /\ FedHeadings(<<10, 11, 9, 10, 50>>)
    /\ Len(fed) = 5
    /\ Len(HeadingEmitted) = 2
    /\ last_heading = 50

\* ------------------------------------------------------- C21, C22, C23, C24

\* the events sent by the step, oldest first
NewEvents == SubSeq(emitted', Len(emitted) + 1, Len(emitted'))

\* TRUE iff the step is an iteration of the sampling loop's body
IterationStep == Len(iterations') = Len(iterations) + 1

\* the iteration the step has run
ThisIteration == iterations'[Len(iterations')]

\* C21: every iteration that produced a sample sends RawChanged with its
\* windowed average before any CalibratedChanged or HeadingChanged derived
\* from that sample, and the events of an earlier iteration are all sent
\* before those of a later one.
C21_RawFirstInSampleOrder ==
    /\ \A n \in 1 .. Len(iterations) :
           iterations[n].ok =>
               \E i \in 1 .. Len(dispatched) :
                   dispatched[i] = [n |-> n, event |-> RawChanged(iterations[n].avg)]
    /\ \A j \in 1 .. Len(dispatched) :
           dispatched[j].event[1] # "RawChanged" =>
               \E i \in 1 .. (j - 1) :
                   /\ dispatched[i].n = dispatched[j].n
                   /\ dispatched[i].event[1] = "RawChanged"
    /\ \A i, j \in 1 .. Len(dispatched) :
           i < j => dispatched[i].n <= dispatched[j].n
    /\ emitted = [i \in 1 .. Len(dispatched) |-> dispatched[i].event]

\* a Calibrating iteration that widened the bounds, then a Measuring one
\* whose heading was emitted: four events
C21_Witness ==
    /\ Len(iterations) = 2
    /\ iterations[1].state = "Calibrating"
    /\ iterations[2].state = "Measuring"
    /\ Len(dispatched) = 4
    /\ dispatched[2].event[1] = "CalibratedChanged"
    /\ dispatched[4] = [n |-> 2, event |-> HeadingChanged(50)]

\* C22: an iteration whose measurement read fails pushes no sample into the
\* window, sends no event, leaves the bounds and the last emitted heading
\* unchanged, and leaves the thread at the top of the next iteration.
C22_ReadErrorSkipsIteration ==
    [][ (IterationStep /\ ~ThisIteration.ok) =>
            /\ UNCHANGED <<window, pushes, lpf>>
            /\ UNCHANGED <<emitted, dispatched, sent>>
            /\ UNCHANGED <<parameters, last_heading>>
            /\ thread' = "check"
            /\ UNCHANGED <<handle, running>> ]_vars

\* a sample was pushed, then a read failed on the bus: the window is as the
\* first iteration left it and the thread is at its next stop check
C22_Witness ==
    /\ Len(iterations) = 2
    /\ iterations[1].ok
    /\ iterations[1].pushed
    /\ ~iterations[2].ok
    /\ iterations[2].err.kind = "io"
    /\ Len(window) = 1
    /\ thread = "check"

\* C23: a step changes a bound or sends CalibratedChanged only if it is an
\* iteration that observed Calibrating; it changes the last emitted heading
\* or sends HeadingChanged only if it is an iteration that observed
\* Measuring; an iteration that observed Idle sends RawChanged alone.
C23_GatedByState ==
    [][ /\ (parameters' # parameters
            \/ \E i \in 1 .. Len(NewEvents) : IsCalibratedChanged(NewEvents[i]))
           => (IterationStep /\ ThisIteration.state = "Calibrating"
               /\ sensor_state = "Calibrating")
        /\ (last_heading' # last_heading
            \/ \E i \in 1 .. Len(NewEvents) : IsHeadingChanged(NewEvents[i]))
           => (IterationStep /\ ThisIteration.state = "Measuring"
               /\ sensor_state = "Measuring")
        /\ (IterationStep /\ sensor_state = "Idle" /\ ThisIteration.ok)
           => NewEvents = <<RawChanged(ThisIteration.avg)>> ]_vars

\* a Calibrating iteration that sent RawChanged and CalibratedChanged, then,
\* calibrate having returned, an Idle iteration with a sample that widens
\* no bound and sends RawChanged alone
C23_Witness ==
    /\ Len(iterations) = 2
    /\ iterations[1].state = "Calibrating"
    /\ Len(iterations[1].events) = 2
    /\ iterations[2].state = "Idle"
    /\ iterations[2].ok
    /\ iterations[2].avg # iterations[1].avg
    /\ iterations[2].events = <<RawChanged(iterations[2].avg)>>
    /\ Bounds(parameters) = iterations[2].parameters

\* the lesser of two counts
Min(a, b) == IF a < b THEN a ELSE b

\* C24: after any number of pushes the window holds min(pushes, capacity)
\* samples, never more than the capacity: the most recent ones, in arrival
\* order, the oldest evicted first.
C24_WindowBounded ==
    /\ Len(window) <= WindowCapacity
    /\ Len(window) = Min(pushes, WindowCapacity)
    /\ \A i \in 1 .. Len(window) :
           window[i] = Arrival(pushes - Len(window) + i)

\* fifty samples pushed past the capacity: the window starts at the 51st
C24_Witness ==
    /\ pushes = WindowCapacity + 50
    /\ Len(window) = WindowCapacity
    /\ window[1] = Arrival(51)
    /\ window[WindowCapacity] = Arrival(WindowCapacity + 50)

\* ------------------------------------------------------------------ C25, C26

\* C25: no thread holds two locks at once.
C25_OneLockAtATime ==
    \A t \in Threads : Len(held[t]) <= 1

\* the worker invoking a handler: it holds the SmartVar, the handler's
\* closure and the handler's parameters
C25_Witness ==
    /\ pc.worker = "invoked"
    /\ Len(held.worker) = 3
    /\ held.worker[1] = VarLock

\* TRUE iff main has loaded the value, the BLE server has registered its
\* handlers and the worker has emptied the queue and sleeps
Settled ==
    /\ pc.main = "loaded"
    /\ pc.ble = "registered"
    /\ sv_channel = <<>>
    /\ pc.worker = "sleep"

\* C26: once setup_storage has loaded the value and everything queued has
\* been taken by the worker, every handler the BLE server registered has
\* been invoked with the loaded value.
C26_LoadedValueReachesHandlers ==
    Settled =>
        \A i \in 1 .. Len(sv_handlers) :
            <<sv_handlers[i], sv_value>> \in Range(delivered)

\* the worker took the loaded value before any handler was registered: both
\* handlers are registered and neither was ever invoked
C26_Witness ==
    /\ Settled
    /\ Len(sv_handlers) = MaxSmartHandlers
    /\ sv_value = 9
    /\ delivered = <<>>

\* ---------------------------------------------------------------------- C27

\* C27: write_register(reg, v) sends exactly [0x60, v >> 8, v & 0xFF,
\* reg << 2] and read_register(reg) sends exactly [0x50, reg << 2] and
\* returns (hi << 8) | lo of response bytes 1 and 2; on a device that stores
\* what is written, the write leaves v in the register and a read of the
\* register written returns v, for every 16-bit v and each of CONF1, CONF2,
\* CONF3.
C27_RegisterRoundTrip ==
    /\ last.op = "write_register" =>
           /\ Len(last.bus) = 1
           /\ last.bus[1].tx = <<96, last.arg[2] \div 256, last.arg[2] % 256,
                                 last.arg[1] * 4>>
           /\ last.ok
           /\ writes = [n |-> 1, register |-> last.arg[1], value |-> last.arg[2]]
           /\ device[last.arg[1]] = last.arg[2]
    /\ last.op = "read_register" =>
           /\ Len(last.bus) = 1
           /\ last.bus[1].tx = <<80, last.arg[1] * 4>>
           /\ last.ok
           /\ last.val = <<last.bus[1].rx[2] * 256 + last.bus[1].rx[3]>>
           /\ last.arg[1] = writes.register => last.val = <<writes.value>>

\* 0xABCD written to CONF3 and read back
C27_Witness ==
    /\ last.op = "read_register"
    /\ last.arg = <<CONF3>>
    /\ writes = [n |-> 1, register |-> CONF3, value |-> 43981]
    /\ last.bus[1].rx = <<0, 171, 205>>
    /\ last.val = <<43981>>

\* ------------------------------------------------------------------ C28, C29

\* TRUE iff the last call is a read_measurement whose measurement response
\* arrived with the error bit 0x10 in its status byte
MeasurementError ==
    /\ last.op = "read_measurement"
    /\ Answered
    /\ BitAnd(last.bus[1].rx[1], 16) # 0

\* C28: a read_measurement whose measurement response has bit 0x10 set in
\* its status byte returns no sample and fails with the read_measurement
\* error carrying that status byte, whatever is cached.
C28_MeasurementErrorCarriesStatus ==
    MeasurementError =>
        /\ ~last.ok
        /\ last.val = <<>>
        /\ last.err = StatusErr("read_measurement", last.bus[1].rx[1])

\* nothing cached, status 0x10 on the measurement, the gain read from CONF1,
\* and the read of CONF3 for the X resolution fails on the bus: the call
\* returns the i2c error of read_register
C28_Witness ==
    /\ MeasurementError
    /\ last.pre = DefaultInternal
    /\ last.bus[1].rx[1] = 16
    /\ Len(last.bus) = 3
    /\ ~last.ok
    /\ last.err = IoErr("read_register")

\* C29: set_resolution(Axis::ALL, r) makes no transaction at all and returns
\* the invalid-axis error, whatever the bus would answer.
C29_AxisAllBeforeBusTraffic ==
    (last.op = "set_resolution" /\ last.arg[1] = AXIS_ALL) =>
        /\ last.bus = <<>>
        /\ ~last.ok
        /\ last.err = AxisErr("set_resolution")

\* set_resolution(ALL, RES16) on a failing bus: one transaction, the read of
\* CONF3, and the i2c error returned
C29_Witness ==
    /\ last.op = "set_resolution"
    /\ last.arg = <<AXIS_ALL, RES16>>
    /\ Len(last.bus) = 1
    /\ last.bus[1].tx = <<CMD_RR, 8>>
    /\ last.bus[1].io = "werr"
    /\ last.err = IoErr("read_register")

\* ---------------------------------------------------------------------- C30

\* C30: against a device whose registers change only through successful
\* register writes, after any calls of the setters and getters, successful
\* or failed, a cached gain, filter or oversampling equals the field of the
\* device's register, and the X, Y and Z resolution fields of a cached CONF3
\* word equal those of the device's CONF3.
C30_CacheCoherent ==
    /\ internal.current_gain # None =>
           internal.current_gain = FieldOf(device[CONF1], 4, 3)
    /\ internal.current_filter # None =>
           internal.current_filter = FieldOf(device[CONF3], 2, 3)
    /\ internal.current_oversampling # None =>
           internal.current_oversampling = FieldOf(device[CONF3], 0, 2)
    /\ internal.current_resolution # None =>
           \A lo \in {5, 7, 9} :
               FieldOf(internal.current_resolution, lo, 2) =
                   FieldOf(device[CONF3], lo, 2)

\* set_resolution, then set_filter and set_oversampling, all stored: the
\* cached CONF3 word is no longer the device's CONF3
C30_Witness ==
    /\ writes.n = 3
    /\ internal.current_resolution # None
    /\ internal.current_filter = 5
    /\ internal.current_oversampling = 2
    /\ internal.current_resolution # device[CONF3]
    /\ FieldOf(device[CONF3], 0, 5) = 22

\* ---------------------------------------------------------------------- C31

ModeOps ==
    {"start_single_measurement", "start_burst_measurement",
     "start_wakeup_measurement", "exit_mode", "reset"}

\* what each getter returns from the cache c for an entry that is cached
CachedAnswers(c, after) ==
    \A resp \in RegReadResps :
        /\ c.current_gain # None =>
               get_gain(after, <<resp>>) = Ok(<<c.current_gain>>, <<>>, c)
        /\ c.current_filter # None =>
               get_filter(after, <<resp>>) = Ok(<<c.current_filter>>, <<>>, c)
        /\ c.current_oversampling # None =>
               get_oversampling(after, <<resp>>) = Ok(<<c.current_oversampling>>, <<>>, c)
        /\ c.current_resolution # None =>
               /\ get_resolution(AXIS_X, after, <<resp>>)
                     = Ok(<<FieldOf(c.current_resolution, 5, 2)>>, <<>>, c)
               /\ get_resolution(AXIS_Y, after, <<resp>>)
                     = Ok(<<FieldOf(c.current_resolution, 7, 2)>>, <<>>, c)
               /\ get_resolution(AXIS_Z, after, <<resp>>)
                     = Ok(<<FieldOf(c.current_resolution, 9, 2)>>, <<>>, c)

\* C31: a call of reset, exit_mode or a mode-start command, successful or
\* failed, makes one transaction and leaves the configuration cache, the
\* sensor state with its history and the subscriber list as they were; every
\* getter whose entry was cached before the call returns that value after it
\* with no transaction, whatever the device would answer to a read.
C31_ModeCommandsKeepState ==
    [][(last.op = "none" /\ last'.op \in ModeOps) =>
           /\ internal' = internal
           /\ last'.pre = internal
           /\ Len(last'.bus) = 1
           /\ sensor_state' = sensor_state
           /\ last_state' = last_state
           /\ handlers' = handlers
           /\ CachedAnswers(internal, internal')]_vars

\* a successful reset of a driver with gain 5 cached, two subscribers and
\* state Measuring
C31_Witness ==
    /\ last.op = "reset"
    /\ last.ok
    /\ last.pre.current_gain = 5
    /\ internal.current_gain = 5
    /\ Len(handlers) = 2
    /\ sensor_state = "Measuring"

\* ---------------------------------------------------------------------- C32

\* the enum a getter decodes into
EnumOfCall ==
    CASE last.op = "get_gain" -> MLX90393GAIN
      [] last.op = "get_resolution" -> MLX90393RESOLUTION
      [] last.op = "get_filter" -> MLX90393FILTER
      [] OTHER -> MLX90393OVERSAMPLING

\* C32: for every 16-bit register content, get_gain, get_resolution(X/Y/Z),
\* get_filter and get_oversampling on an empty cache succeed with a tag of
\* their enum, which is the masked field of the content read; no call ends in
\* the panic of a u8-to-enum conversion; read_measurement, reading its gain
\* and resolutions from such registers, succeeds with each axis scaled by an
\* entry of the conversion table at a resolution in 0..3 and a gain in 0..7.
C32_DecodingTotal ==
    /\ last.err.kind # "panic"
    /\ (last.op \in Getters /\ Answered /\ BitOf(Status1, 4) = 0) =>
           /\ last.ok
           /\ last.val[1] \in EnumOfCall
           /\ last.val[1] = FieldOf(ReadValue(last.bus[1]), LowBitOfCall, WidthOfCall)
    /\ (last.op = "read_measurement" /\ Len(last.bus) = 5) =>
           LET gain == FieldOf(ReadValue(last.bus[2]), 4, 3)
               res(k) == FieldOf(ReadValue(last.bus[k + 2]), 2 * k + 3, 2)
           IN  /\ last.ok
               /\ gain \in 0 .. 7
               /\ \A k \in 1 .. 3 : res(k) \in 0 .. 3
               /\ \A k \in 1 .. 3 :
                      last.val[k] = RawRead(k) * Scale(res(k), gain, IF k = 3 THEN 2 ELSE 1)

\* read_measurement on an empty cache with CONF1 and CONF3 holding 0xFFFF:
\* gain GAIN1X (7) and RES19 (3) on each axis, the last row and column of
\* the conversion table
C32_Witness ==
    /\ last.op = "read_measurement"
    /\ Len(last.bus) = 5
    /\ ReadValue(last.bus[2]) = 65535
    /\ last.ok
    /\ last.val[1] = 1000 * Scale(3, 7, 1)

\* ---------------------------------------------------------------------- C33

\* C33: the driver starts with state and last_state both Idle; a call
\* set_state(s) leaves state = s and last_state = the state before the call,
\* so that a call with the state the driver is already in leaves both equal
\* to s; no other call changes either.
C33_SetStateHistory ==
    /\ sensor_state = "Idle" /\ last_state = "Idle"
    /\ [][/\ (last.op = "none" /\ last'.op = "set_state") =>
               /\ sensor_state' = last'.arg[1]
               /\ last_state' = sensor_state
               /\ (sensor_state = last'.arg[1] =>
                       sensor_state' = last'.arg[1] /\ last_state' = last'.arg[1])
          /\ ~(last.op = "none" /\ last'.op = "set_state") =>
               UNCHANGED <<sensor_state, last_state>>]_vars

\* set_state(Calibrating) on a driver that was Measuring, and before that
\* something else: state Calibrating, last_state Measuring
C33_Witness ==
    /\ last.op = "set_state"
    /\ last.arg = <<"Calibrating">>
    /\ sensor_state = "Calibrating"
    /\ last_state = "Measuring"

\* ---------------------------------------------------------------------- C34

\* C34: the sampling thread ends only in a stop check that takes true from
\* the channel: a check on an empty channel or one that takes false goes on
\* to the iteration, a failed iteration returns to the next stop check, and
\* as long as end() has not been called the thread has not ended and has a
\* next step to take.
C34_EndsOnlyOnTrue ==
    /\ [](ends = 0 =>
             /\ thread # "ended"
             /\ ENABLED (SensorThreadCheck \/ SensorThreadSleep))
    /\ [][/\ (thread' = "ended" /\ thread # "ended") =>
               /\ thread = "check"
               /\ channel # <<>>
               /\ Head(channel) = TRUE
               /\ ends > 0
          /\ (thread = "check" /\ thread' # "check"
                /\ (channel = <<>> \/ Head(channel) = FALSE)) =>
               thread' = "sleep"
          /\ IterationStep => thread' = "check"]_vars

\* end() not called: the thread took false from the channel, went through
\* an iteration whose read failed, and is at its next stop check with a
\* further false queued
C34_Witness ==
    /\ ends = 0
    /\ thread = "check"
    /\ Len(iterations) = 1
    /\ ~iterations[1].ok
    /\ channel = <<FALSE>>

\* ---------------------------------------------------------------------- C35

\* a step that is a call of set()
SetStep == store'.calls = store.calls + 1 /\ store'.call.op = "set"

\* C35: every call set(v) returns Ok, leaves get() = v and appends exactly
\* one Changed(v) to the channel, with or without storage configured and
\* whatever becomes of the save; the stored entry changes only when namespace
\* and storage name are both set.
C35_SetAlwaysQueues ==
    [][SetStep =>
           /\ store'.call.result = "ok"
           /\ sv_value' = store'.call.arg
           /\ sv_channel' = Append(sv_channel, Changed(store'.call.arg))
           /\ (store'.nvs # store.nvs => store.namespace /\ store.storage_name)]_vars

\* set(9) on a SmartVar with storage configured, the namespace failing to
\* open: the value is 9, no event was queued and the call did not return
C35_Witness ==
    /\ store.call.op = "set"
    /\ store.call.arg = 9
    /\ store.call.result = "panic"
    /\ store.namespace
    /\ sv_value = 9
    /\ sv_channel = <<>>
    /\ store.poisoned

\* ---------------------------------------------------------------------- C36

\* number of events the worker has taken from the channel
Taken == Len(store.queued) - Len(sv_channel)

\* TRUE iff the worker is inside its loop over the handlers
Delivering == pc.worker \in {"deliver", "invoked"}

\* number of events whose delivery is complete
Done == IF Delivering THEN Taken - 1 ELSE Taken

\* number of handlers invoked so far with the event being delivered
InvokedNow == IF pc.worker = "invoked" THEN pc.i ELSE pc.i - 1

\* C36: the channel holds the queued events not yet taken, in queue order;
\* the worker takes the oldest one, one per iteration, and invokes each
\* handler registered, in registration order, once with its value before it
\* sleeps again; no handler is invoked otherwise; and while the worker runs
\* (it has not left its loop on end(), nor panicked on a poisoned Mutex) the
\* k-th event queued is eventually delivered.
C36_EventsDelivered ==
    /\ [](/\ Taken >= 0
          /\ sv_channel = [i \in 1 .. Len(sv_channel) |-> Changed(store.queued[Taken + i])]
          /\ \A i \in 1 .. Len(sv_handlers) : sv_handlers[i] = i
          /\ Delivering =>
               /\ pc.received = store.queued[Taken]
               /\ InvokedNow <= Len(sv_handlers)
               /\ InvokedNow <= Len(delivered)
               /\ \A j \in 1 .. InvokedNow :
                      delivered[Len(delivered) - InvokedNow + j] = <<j, pc.received>>)
    /\ [][/\ delivered' # delivered =>
               /\ pc.worker = "deliver"
               /\ pc'.worker = "invoked"
               /\ delivered' = Append(delivered, AllInvoked(sv_handlers, pc.received)[pc.i])
          /\ Taken' # Taken =>
               /\ pc.worker = "locked"
               /\ pc'.worker = "deliver"
               /\ Taken' = Taken + 1
               /\ pc'.i = 1
          /\ pc'.worker = "locked" /\ pc.worker # "locked" => pc.worker = "sleep"
          /\ Delivering =>
               /\ sv_handlers' = sv_handlers
               /\ store'.queued = store.queued
               /\ Delivering' => pc'.received = pc.received /\ Taken' = Taken
               /\ ~Delivering' => pc'.worker = "sleep" /\ InvokedNow = Len(sv_handlers)]_vars
    /\ \A k \in 1 .. MaxSets :
           (Len(store.queued) >= k) ~> (\/ store.poisoned
                                        \/ pc.worker \in {"ended", "panicked"}
                                        \/ Done >= k)

\* set(5) was delivered to the one handler registered then, set(9) after it
\* to that handler and to the one registered in between, and the worker sleeps
C36_Witness ==
    /\ store.queued = <<5, 9>>
    /\ sv_channel = <<>>
    /\ pc.worker = "sleep"
    /\ ~store.poisoned
    /\ delivered = <<<<1, 5>>, <<1, 9>>, <<2, 9>>>>

\* ---------------------------------------------------------------------- C37

\* a step that is a call of set_angle
SetAngleStep == motor'.calls = motor.calls + 1

\* C37: the angle is 0 after construction and always within 0..180; a call
\* set_angle(a) with a < 0 or a > 180 fails, leaving the angle and the channel
\* as they were; with 0 <= a <= 180 it succeeds, get_angle() is a and exactly
\* one message, a, is appended to the channel; no other step changes the angle.
C37_AngleInRange ==
    /\ get_angle(motor) = 0
    /\ [](get_angle(motor) \in 0 .. 180)
    /\ [][IF SetAngleStep
          THEN IF motor'.arg < 0 \/ motor'.arg > 180
               THEN /\ ~motor'.ok
                    /\ get_angle(motor') = get_angle(motor)
                    /\ motor'.channel = motor.channel
               ELSE /\ motor'.ok
                    /\ get_angle(motor') = motor'.arg
                    /\ motor'.channel = Append(motor.channel, motor'.arg)
          ELSE get_angle(motor') = get_angle(motor)]_vars

\* set_angle(180) and set_angle(90) accepted, then set_angle(181) refused:
\* the angle is still 90 and two messages are queued
C37_Witness ==
    /\ motor.calls = 3
    /\ motor.arg = 181
    /\ ~motor.ok
    /\ get_angle(motor) = 90
    /\ motor.channel = <<180, 90>>

\* ---------------------------------------------------------------------- C38

\* C38: for the angle taken from the channel, any of 0..180, the pulse time
\* is angle * 2000 / 180 + 500, within 500..2500 and at least the pulse time
\* of every smaller angle; 0 gives 500, 90 gives 1500 and 180 gives 2500; the
\* duty value is time * max_duty / 20000, at most max_duty; and the products
\* angle * 2000 and time * max_duty fit 32 bits.
C38_PulseInRange ==
    motor.pulse.n > 0 =>
        /\ motor.pulse.angle \in 0 .. 180
        /\ motor.pulse.time = (motor.pulse.angle * 2000) \div 180 + 500
        /\ motor.pulse.time \in 500 .. 2500
        /\ \A smaller \in 0 .. motor.pulse.angle : pulse_time(smaller) <= motor.pulse.time
        /\ motor.pulse.angle = 0 => motor.pulse.time = 500
        /\ motor.pulse.angle = 90 => motor.pulse.time = 1500
        /\ motor.pulse.angle = 180 => motor.pulse.time = 2500
        /\ motor.pulse.duty = (motor.pulse.time * motor.pulse.max_duty) \div 20000
        /\ motor.pulse.duty <= motor.pulse.max_duty
        /\ Fits(motor.pulse.angle, 2000)
        /\ Fits(motor.pulse.time, motor.pulse.max_duty)

\* the pulse of 180 degrees on a timer with max_duty 8191: 2500 us, duty 1023
C38_Witness ==
    /\ motor.pulse.n = 1
    /\ motor.pulse.angle = 180
    /\ motor.pulse.time = 2500
    /\ motor.pulse.max_duty = 8191
    /\ motor.pulse.duty = 1023
    /\ motor.channel = <<>>

\* ---------------------------------------------------------------------- C39

\* the sequence s in reverse order
Reversed(s) == [i \in 1 .. Len(s) |-> s[Len(s) + 1 - i]]

\* the end() calls the running or the last end_all has made
EndedNow == SubSeq(endable.ended, endable.mark + 1, Len(endable.ended))

\* C39: end_all calls end() on the objects from the last registered to the
\* first, once each, no other step calling end(); it does not stop before
\* the list is empty: when it is over, end() was called on every object it
\* found; and on the empty list it leaves, a second end_all calls nothing.
C39_EndAllReverse ==
    /\ [](endable.pc = "looping" =>
              endable.pre = endable.objects \o Reversed(EndedNow))
    /\ [][/\ endable'.ended # endable.ended =>
                /\ endable.pc = "looping"
                /\ endable.objects # <<>>
                /\ endable'.ended =
                       Append(endable.ended, endable.objects[Len(endable.objects)])
          /\ (endable.pc = "looping" /\ endable'.pc # "looping") =>
                /\ endable'.objects = <<>>
                /\ SubSeq(endable'.ended, endable.mark + 1, Len(endable'.ended))
                       = Reversed(endable.pre)
                /\ endable.pre = <<>> => endable'.ended = endable.ended]_vars

\* end_all found the motor and, registered after it, a SmartVar whose Mutex
\* a panic in setup_storage had poisoned: it has panicked on the SmartVar,
\* no end() was called, the motor is still in the list and its thread runs
C39_Witness ==
    /\ endable.pc = "panicked"
    /\ endable.pre = <<"motor", "smartvar">>
    /\ endable.objects = <<"motor">>
    /\ endable.ended = <<>>
    /\ store.poisoned
    /\ motor.end_channel = <<>>
    /\ motor.thread = "running"

\* end_all on the sensor, the motor and a sound SmartVar, then end_all
\* again: three end() calls, in reverse order, all made by the first call,
\* and the three threads have ended
C39_AllEnded ==
    /\ endable.calls = 2
    /\ endable.pc = "idle"
    /\ endable.pre = <<>>
    /\ endable.objects = <<>>
    /\ endable.ended = <<"smartvar", "motor", "mlx90393">>
    /\ thread = "ended"
    /\ motor.thread = "ended"
    /\ pc.worker = "ended"

====
